---- MODULE Spec2Model ----
(***************************************************************************)
(* SimpleMIDI: the signal-to-property animation engine of the Blender      *)
(* add-on, in its two snapshots:                                           *)
(*   "polling"  src/__init__.py     process_midi_events, iter_pending      *)
(*   "queue"    src/MidiControl.py  midi_callback + queue_processor        *)
(* Init chooses the snapshot; the state of the other one stays empty.      *)
(* The functions a tick calls on its way to the property graph (easing,    *)
(* the expression evaluator, the path resolver) are exercised on their own *)
(* inputs by CallSpec, apply_to_blender on the property graph by WriteSpec *)
(* and the export and import of the mappings by FileSpec; in the           *)
(* behaviours of Spec a tick's writes are recorded in applied and the      *)
(* graph itself is left as it is.  EditSpec adds and removes mappings      *)
(* while the engine runs; in PassSpec the tick of the polling snapshot is  *)
(* one step, process_midi_events, that writes the graph.                   *)
(*                                                                         *)
(* Numbers.  Normalised values (target_value, animation_states) are exact  *)
(* rationals held as integers in units of 1/(127 * 10^6), so that v/127,   *)
(* 0.001, 0.00001 and speed * 0.2 are all whole numbers of units.  Speeds  *)
(* are held in units of 0.00001.  Floating-point rounding is not modelled. *)
(* Python's 0-based mapping index i is the model's index i + 1.            *)
(***************************************************************************)
EXTENDS Integers, Sequences, FiniteSets, TLC

VARIABLES
    engine,            \* which snapshot runs: "polling" or "queue"
    mappings,          \* scene.midi_mappings: a sequence of mapping records
    animation_states,  \* the dict animation_states: index -> smoothed value
    midi_input,        \* "unset" (no such global yet), "none" or "open"
    is_connected,      \* the polling snapshot's connection flag
    timer_registered,  \* bpy.app.timers.is_registered(<tick callback>)
    pending,           \* messages buffered in the open port (polling)
    execution_queue,   \* the SimpleQueue of (type, id, value) (queue)
    monitor,           \* scene.monitor_type / monitor_id / monitor_val
    pc,                \* position of the tick callback: "idle", "drain", "get"
    applied,           \* <<mapping, target>> pairs handed to apply_to_blender
                       \* by the animation pass of the last finished tick
    produced,          \* history: number of events put into the buffer
    lastSeq,           \* history: number of the last event that left it
    listener,          \* history: "never", "running", "stopped", "failed"
    graph,             \* the slots of bpy.data reachable by the model's paths
    file,              \* the JSON document last written by the export
    call,              \* history: the last function called and its arguments
    ret,               \* history: what that call returned
    writes             \* history: number of calls of apply_to_blender so far

engineVars == <<engine, mappings, animation_states, midi_input, is_connected,
                timer_registered, pending, execution_queue, monitor, pc,
                applied, produced, lastSeq, listener>>

outVars == <<graph, file, call, ret, writes>>

vars == <<engineVars, outVars>>

----------------------------------------------------------------------------
(* Bounds of the model.                                                    *)

\* calls of apply_to_blender in one behaviour
MaxWrites == 2

\* mappings a scene holds after an import or an added mapping
MaxMappings == 2

\* events the transport delivers in one behaviour
MaxEvents == 2

----------------------------------------------------------------------------
(* Fixed-point units.                                                      *)

\* the controller's largest value: m_val / 127.0
MidiMax == 127
\* 1.0 as a normalised value
ONE == MidiMax * 1000000
\* smooth_speed 1.0, in units of 0.00001
SpeedOne == 100000
\* abs(current - target) < 0.001
SnapEps == ONE \div 1000
\* abs(current - animation_states[i]) > 0.00001
WriteEps == ONE \div 100000

Abs(n) == IF n < 0 THEN -n ELSE n

\* m_val / 100.0: the controller's range taken for a percentage
Norm100(v) == v * (ONE \div 100)

\* m_val / 127.0
Norm127(v) == v * (ONE \div MidiMax)

\* speed * 0.2
SpeedStep(speed) == (speed * (ONE \div SpeedOne)) \div 5

----------------------------------------------------------------------------
(* Strings the code searches are sequences of characters.                  *)

\* Python's  needle in hay
IsSubstr(needle, hay) ==
    \E k \in 0..(Len(hay) - Len(needle)) :
        \A j \in 1..Len(needle) : hay[k + j] = needle[j]

StrTime  == <<"t", "i", "m", "e">>
StrFrame == <<"f", "r", "a", "m", "e">>

\* expressions a target may carry in this model
ExprNone     == << >>
ExprX        == <<"x", "*", "2">>
ExprSinTime  == <<"s", "i", "n", "(", "t", "i", "m", "e", ")">>

----------------------------------------------------------------------------
(* The mappings of the scene.  A mapping record keeps the fields the tick  *)
(* reads: midi_cc, use_note, target_value, smooth_speed and its targets    *)
(* (drive_mode, expression).  In the queue snapshot a mapping carries its  *)
(* one data_path itself; it is target 1 of the record.                     *)

Target(mode, expr) == [drive_mode |-> mode, expression |-> expr]

Mapping(cc, note, speed, tgs) ==
    [midi_cc |-> cc, use_note |-> note, target_value |-> 0,
     smooth_speed |-> speed, targets |-> tgs]

\* smooth_speed 0.83989: its third step from 0 ends 0.000003 short of 64/127
SpeedOdd == 83989

\* knob 0, smoothed, one plain target
SlowKnob == Mapping(0, FALSE, SpeedOdd, <<Target("SET", ExprNone)>>)
\* knob 0, instant (smooth_speed 1.0), a target with an expression on x
FastKnob == Mapping(0, FALSE, SpeedOne, <<Target("SET", ExprX)>>)
\* key 0, smoothed, a plain target and a motor target
MotorKey == Mapping(0, TRUE, SpeedOdd,
                    <<Target("SET", ExprNone), Target("ACCUMULATE", ExprNone)>>)
\* knob 1, instant, a target whose expression reads the clock
ClockKnob == Mapping(1, FALSE, SpeedOne, <<Target("SET", ExprSinTime)>>)

\* the mapping lists a behaviour may start from
Configs == {<<SlowKnob, FastKnob>>, <<MotorKey, ClockKnob>>}

\* smooth_speed: min=0.01
SpeedMin == SpeedOne \div 100

\* smooth_speed: default=0.1, 0.83989 and 0.99999
SmoothSpeeds == {SpeedOne \div 10, SpeedOdd, SpeedOne - 1}

\* one smoothed knob: knob 0, plain or continuously active, at each of these
\* speeds, and a plain knob 1 at the smallest speed
SmoothConfigs ==
    {<<Mapping(0, FALSE, s, <<Target(mode, ExprNone)>>)>> :
        s \in SmoothSpeeds, mode \in {"SET", "ACCUMULATE"}}
    \cup {<<Mapping(1, FALSE, SpeedMin, <<Target("SET", ExprNone)>>)>>}

----------------------------------------------------------------------------
(* Messages of the MIDI transport.                                         *)

Message(t, n, v) == [type |-> t, num |-> n, val |-> v]

\* the messages of this model: type, message.control or message.note,
\* message.value or message.velocity
Messages ==
    {Message("control_change", 0, 0), Message("control_change", 0, 64),
     Message("control_change", 0, MidiMax), Message("control_change", 1, 13),
     Message("note_on", 0, 64), Message("note_on", 0, 0),
     Message("note_on", 1, MidiMax), Message("note_off", 0, 64),
     Message("pitchwheel", 0, 0)}

Event(t, n, v) == [m_type |-> t, m_id |-> n, m_val |-> v]

\* process_midi_events: the (m_type, m_id, m_val) read from a message
DecodePending(msg) ==
    CASE msg.type = "control_change" -> Event("CC", msg.num, msg.val)
      [] msg.type = "note_on"        -> Event("Note", msg.num, msg.val)
      [] msg.type = "note_off"       -> Event("Note", msg.num, 0)
      [] OTHER                       -> Event("None", -1, 0)

\* midi_callback: the tuples it puts for a message (none for other types)
CallbackPuts(msg) ==
    CASE msg.type = "control_change" -> <<Event("CC", msg.num, msg.val)>>
      [] msg.type = "note_on"        -> <<Event("Note", msg.num, msg.val)>>
      [] msg.type = "note_off"       -> <<Event("Note", msg.num, 0)>>
      [] OTHER                       -> << >>

\* the update of the mapped values without the two tests of m_type
UpdateMappedValuesAnyType(maps, ev) ==
    [i \in 1..Len(maps) |->
        IF maps[i].midi_cc = ev.m_id
        THEN IF maps[i].use_note
             THEN [maps[i] EXCEPT !.target_value =
                       IF ev.m_val > 0 THEN ONE ELSE 0]
             ELSE [maps[i] EXCEPT !.target_value = Norm127(ev.m_val)]
        ELSE maps[i]]

\* process_midi_events: "Update Mapped Values" for one event
UpdateMappedValues(maps, ev) ==
    [i \in 1..Len(maps) |->
        IF maps[i].midi_cc = ev.m_id
        THEN IF maps[i].use_note
             THEN IF ev.m_type = "Note"
                  THEN [maps[i] EXCEPT !.target_value =
                            IF ev.m_val > 0 THEN ONE ELSE 0]
                  ELSE maps[i]
             ELSE IF ev.m_type # "Note"
                  THEN [maps[i] EXCEPT !.target_value = Norm127(ev.m_val)]
                  ELSE maps[i]
        ELSE maps[i]]

\* the update of the targets with a key's target following its velocity
UpdateMappingsTargetsVelocity(maps, ev) ==
    [i \in 1..Len(maps) |->
        IF maps[i].midi_cc = ev.m_id
        THEN IF maps[i].use_note
             THEN IF ev.m_type = "Note"
                  THEN [maps[i] EXCEPT !.target_value = Norm127(ev.m_val)]
                  ELSE maps[i]
             ELSE IF ev.m_type # "Note"
                  THEN [maps[i] EXCEPT !.target_value = Norm127(ev.m_val)]
                  ELSE maps[i]
        ELSE maps[i]]

\* queue_processor: "Update Mappings Targets" for one event
UpdateMappingsTargets(maps, ev) ==
    [i \in 1..Len(maps) |->
        IF maps[i].midi_cc = ev.m_id
        THEN IF maps[i].use_note
             THEN IF ev.m_type = "Note"
                  THEN [maps[i] EXCEPT !.target_value =
                            IF ev.m_val > 0 THEN ONE ELSE 0]
                  ELSE maps[i]
             ELSE IF ev.m_type # "Note"
                  THEN [maps[i] EXCEPT !.target_value = Norm127(ev.m_val)]
                  ELSE maps[i]
        ELSE maps[i]]

\* the port's buffer takes a message (read later by iter_pending)
PortReceive(buffer, msg) == Append(buffer, msg)

\* a put at the front of the queue: a stack where a queue is meant
QueuePutFront(queue, entries) == entries \o queue

\* execution_queue.put(...), for the tuples one call of midi_callback puts
QueuePut(queue, entries) == queue \o entries

\* scene.monitor_type, scene.monitor_id, scene.monitor_val = float(m_val)
MonitorOf(ev) == [type |-> ev.m_type, id |-> ev.m_id, val |-> ev.m_val]

----------------------------------------------------------------------------
(* The smoothing step.                                                     *)

\* process_midi_events: "Smooth interpolation"
SmoothPolling(current, target, speed) ==
    IF Abs(current - target) < SnapEps
    THEN target
    ELSE LET step == IF speed < SpeedOne THEN SpeedStep(speed) ELSE ONE
         IN  IF current < target
             THEN IF current + step > target THEN target ELSE current + step
             ELSE IF current - step < target THEN target ELSE current - step

\* queue_processor: "Animation Step"
SmoothQueue(current, target, speed) ==
    IF Abs(current - target) < SnapEps
    THEN target
    ELSE IF speed >= SpeedOne
         THEN target
         ELSE LET step == SpeedStep(speed)
              IN  IF current < target
                  THEN IF current + step > target THEN target
                                                  ELSE current + step
                  ELSE IF current - step < target THEN target
                                                  ELSE current - step

\* any(t.drive_mode == 'ACCUMULATE' or 'time' in t.expression
\*     or 'frame' in t.expression for t in mapping.targets)
IsContinuous(m) ==
    \E k \in 1..Len(m.targets) :
        \/ m.targets[k].drive_mode = "ACCUMULATE"
        \/ IsSubstr(StrTime, m.targets[k].expression)
        \/ IsSubstr(StrFrame, m.targets[k].expression)

\* if i not in animation_states: animation_states[i] = mapping.target_value
Seeded(states, maps) ==
    [i \in (DOMAIN states) \cup (1..Len(maps)) |->
        IF i \in DOMAIN states THEN states[i] ELSE maps[i].target_value]

\* the value the polling tick computes for mapping i
CurrentPolling(states, maps, i) ==
    SmoothPolling(Seeded(states, maps)[i], maps[i].target_value,
                  maps[i].smooth_speed)

\* the write test with the abs() of its first comparison left out
WritesPollingNoAbs(states, maps, i) ==
    LET current == CurrentPolling(states, maps, i)
    IN  \/ current - Seeded(states, maps)[i] > WriteEps
        \/ (IsContinuous(maps[i]) /\ Abs(current) > SnapEps)

\* a write test that writes on any change, however small
WritesPollingAnyChange(states, maps, i) ==
    LET current == CurrentPolling(states, maps, i)
    IN  \/ current # Seeded(states, maps)[i]
        \/ (IsContinuous(maps[i]) /\ Abs(current) > SnapEps)

\* abs(current - animation_states[i]) > 0.00001
\*     or (is_continuous and abs(current) > 0.001)
WritesPolling(states, maps, i) ==
    LET current == CurrentPolling(states, maps, i)
    IN  \/ Abs(current - Seeded(states, maps)[i]) > WriteEps
        \/ (IsContinuous(maps[i]) /\ Abs(current) > SnapEps)

\* process_midi_events: the animation and smoothing loop, all mappings
AnimatePolling(states, maps) ==
    [states |->
        [i \in DOMAIN Seeded(states, maps) |->
            IF i \in 1..Len(maps) /\ WritesPolling(states, maps, i)
            THEN CurrentPolling(states, maps, i)
            ELSE Seeded(states, maps)[i]],
     applied |->
        {<<i, k>> \in (1..Len(maps)) \X (1..2) :
            k <= Len(maps[i].targets) /\ WritesPolling(states, maps, i)}]

\* queue_processor: the animation loop, all mappings
AnimateQueue(states, maps) ==
    [states |->
        [i \in DOMAIN Seeded(states, maps) |->
            IF i \in 1..Len(maps)
            THEN SmoothQueue(Seeded(states, maps)[i], maps[i].target_value,
                             maps[i].smooth_speed)
            ELSE Seeded(states, maps)[i]],
     applied |-> {<<i, 1>> : i \in 1..Len(maps)}]

----------------------------------------------------------------------------
(* Connecting and disconnecting.  The three parts of the connection state  *)
(* are handled as one record so that stop_listening is an operator.        *)

Engine(mi, ic, tr) ==
    [midi_input |-> mi, is_connected |-> ic, timer_registered |-> tr]

EngineState == Engine(midi_input, is_connected, timer_registered)

\* stop_listening without its  if midi_input:  test: close() on None raises
StopPollingUnguarded(s, closeOk) ==
    IF s.midi_input # "open" \/ ~closeOk
    THEN [state |-> s, raised |-> TRUE]
    ELSE [state |-> Engine("none", FALSE, FALSE), raised |-> FALSE]

\* src/__init__.py stop_listening; closeOk: midi_input.close() does not raise
StopPolling(s, closeOk) ==
    IF s.midi_input = "open" /\ ~closeOk
    THEN [state |-> s, raised |-> TRUE]
    ELSE [state |-> Engine("none", FALSE, FALSE), raised |-> FALSE]

\* stop_listening without its last two lines: the timer stays registered
StopQueueKeepsTimer(s, closeOk) ==
    IF s.midi_input = "open"
    THEN IF closeOk
         THEN [state |-> Engine("none", s.is_connected, s.timer_registered),
               raised |-> FALSE]
         ELSE [state |-> s, raised |-> TRUE]
    ELSE [state |-> s, raised |-> FALSE]

\* src/MidiControl.py stop_listening; the global midi_input may not exist yet
StopQueue(s, closeOk) ==
    IF s.midi_input = "open"
    THEN IF closeOk
         THEN [state |-> Engine("none", s.is_connected, FALSE),
               raised |-> FALSE]
         ELSE [state |-> s, raised |-> TRUE]
    ELSE [state |-> Engine(s.midi_input, s.is_connected, FALSE),
          raised |-> FALSE]

StopEffect(s, closeOk) ==
    IF engine = "polling" THEN StopPolling(s, closeOk) ELSE StopQueue(s, closeOk)

\* what a returning stop_listening leaves of the buffered events: the port's
\* buffer goes with the closed port, the SimpleQueue is a module global that
\* nothing empties (its entries are marked as left over, for the record)
QueueAfterStop(q) == [k \in 1..Len(q) |-> [q[k] EXCEPT !.stale = TRUE]]

----------------------------------------------------------------------------
(* The external property graph: bpy.data.objects, with the objects "Cube"  *)
(* and "A.B".  A slot holds a value of one kind: a bool, an int (a whole   *)
(* number) or a float, the float in units of 1/1270, so that v/127 for the *)
(* values used, one decimal of a range, 0.5 and a tenth of these are whole *)
(* numbers of units.                                                       *)

\* 1.0 as a float of the graph
Unit == MidiMax * 10

\* the values of the slots; True is held as 1 and False as 0
Bool(b)  == [kind |-> "bool", v |-> IF b THEN 1 ELSE 0]
Whole(n) == [kind |-> "int", v |-> n]
Float(u) == [kind |-> "float", v |-> u]

\* the objects before any write
Graph0 ==
    [o \in {"Cube", "A.B"} |->
        [location      |-> <<Float(0), Float(0)>>,
         hide_viewport |-> Bool(FALSE),
         pass_index    |-> Whole(0)]]

\* no export yet; no call yet
NoFile == [written |-> FALSE, parses |-> FALSE]
NoCall == [fn |-> "none"]

----------------------------------------------------------------------------
InitFrom(configs) ==
    /\ engine \in {"polling", "queue"}
    /\ mappings \in configs
    /\ animation_states = << >>
    /\ midi_input = IF engine = "polling" THEN "none" ELSE "unset"
    /\ is_connected = FALSE
    /\ timer_registered = FALSE
    /\ pending = << >>
    /\ execution_queue = << >>
    /\ monitor = [type |-> "None", id |-> -1, val |-> 0]
    /\ pc = "idle"
    /\ applied = {}
    /\ produced = 0
    /\ lastSeq = 0
    /\ listener = "never"
    /\ graph = Graph0
    /\ file = NoFile
    /\ call = NoCall
    /\ ret = NoCall
    /\ writes = 0

Init == InitFrom(Configs)

\* the transport hands one message to the open port
Deliver ==
    /\ UNCHANGED outVars
    /\ midi_input = "open"
    /\ produced < MaxEvents
    /\ \E msg \in Messages :
          IF engine = "polling"
          THEN /\ pending' = PortReceive(pending,
                                  [type |-> msg.type, num |-> msg.num,
                                   val |-> msg.val, seq |-> produced + 1])
               /\ produced' = produced + 1
               /\ UNCHANGED execution_queue
          ELSE /\ execution_queue' =
                    QueuePut(execution_queue,
                       [k \in 1..Len(CallbackPuts(msg)) |->
                           [m_type |-> CallbackPuts(msg)[k].m_type,
                            m_id   |-> CallbackPuts(msg)[k].m_id,
                            m_val  |-> CallbackPuts(msg)[k].m_val,
                            raw    |-> msg.type,
                            seq    |-> produced + k,
                            stale  |-> FALSE]])
               /\ produced' = produced + Len(CallbackPuts(msg))
               /\ UNCHANGED pending
    /\ UNCHANGED <<engine, mappings, animation_states, midi_input,
                   is_connected, timer_registered, monitor, pc, applied,
                   lastSeq, listener>>

\* the timer fires: process_midi_events / queue_processor starts
Tick ==
    /\ UNCHANGED outVars
    /\ pc = "idle"
    /\ timer_registered
    /\ IF engine = "polling" /\ (~is_connected \/ midi_input # "open")
       THEN pc' = pc
       ELSE pc' = "drain"
    /\ UNCHANGED <<engine, mappings, animation_states, midi_input,
                   is_connected, timer_registered, pending, execution_queue,
                   monitor, applied, produced, lastSeq, listener>>

\* process_midi_events: one turn of  for message in midi_input.iter_pending(),
\* and, once the port has nothing more, the animation loop
PollPending ==
    /\ UNCHANGED outVars
    /\ engine = "polling"
    /\ pc = "drain"
    /\ IF pending = << >>
       THEN /\ animation_states' =
                   AnimatePolling(animation_states, mappings).states
            /\ applied' = AnimatePolling(animation_states, mappings).applied
            /\ pc' = "idle"
            /\ UNCHANGED <<mappings, pending, monitor, lastSeq>>
       ELSE /\ pending' = Tail(pending)
            /\ lastSeq' = Head(pending).seq
            /\ monitor' = MonitorOf(DecodePending(Head(pending)))
            /\ mappings' =
                   UpdateMappedValues(mappings, DecodePending(Head(pending)))
            /\ UNCHANGED <<animation_states, applied, pc>>
    /\ UNCHANGED <<engine, midi_input, is_connected, timer_registered,
                   execution_queue, produced, listener>>

\* queue_processor:  while not execution_queue.empty()  and, once it is
\* empty, the animation loop
QueueEmpty ==
    /\ UNCHANGED outVars
    /\ engine = "queue"
    /\ pc = "drain"
    /\ IF execution_queue = << >>
       THEN /\ animation_states' =
                   AnimateQueue(animation_states, mappings).states
            /\ applied' = AnimateQueue(animation_states, mappings).applied
            /\ pc' = "idle"
       ELSE /\ pc' = "get"
            /\ UNCHANGED <<animation_states, applied>>
    /\ UNCHANGED <<engine, mappings, midi_input, is_connected,
                   timer_registered, pending, execution_queue, monitor,
                   produced, lastSeq, listener>>

\* queue_processor:  execution_queue.get()  (which waits while the queue is
\* empty) and the update of the monitor and of the targets
QueueGet ==
    /\ UNCHANGED outVars
    /\ engine = "queue"
    /\ pc = "get"
    /\ execution_queue # << >>
    /\ execution_queue' = Tail(execution_queue)
    /\ lastSeq' = Head(execution_queue).seq
    /\ monitor' = MonitorOf(Head(execution_queue))
    /\ mappings' = UpdateMappingsTargets(mappings, Head(execution_queue))
    /\ pc' = "drain"
    /\ UNCHANGED <<engine, animation_states, midi_input, is_connected,
                   timer_registered, pending, applied, produced, listener>>

\* stop_listening, called by MIDI_OT_Disconnect or unregister
StopListening ==
    /\ UNCHANGED outVars
    /\ pc = "idle"
    /\ \E closeOk \in BOOLEAN :
          LET r == StopEffect(EngineState, closeOk)
          IN  /\ midi_input' = r.state.midi_input
              /\ is_connected' = r.state.is_connected
              /\ timer_registered' = r.state.timer_registered
              /\ IF r.raised
                 THEN UNCHANGED <<pending, execution_queue, lastSeq,
                                  listener>>
                 ELSE /\ pending' = << >>
                      /\ lastSeq' = lastSeq + Len(pending)
                      /\ execution_queue' = QueueAfterStop(execution_queue)
                      /\ listener' = "stopped"
    /\ UNCHANGED <<engine, mappings, animation_states, monitor, pc, applied,
                   produced>>

\* start_listening, called by MIDI_OT_Connect; openOk: mido.open_input does
\* not raise
StartListening ==
    /\ UNCHANGED outVars
    /\ pc = "idle"
    /\ \E closeOk \in BOOLEAN, openOk \in BOOLEAN :
          LET r == StopEffect(EngineState, closeOk)
          IN  IF r.raised
              THEN /\ is_connected' =
                          IF engine = "polling" THEN FALSE ELSE is_connected
                   /\ listener' =
                          IF engine = "polling" THEN "failed" ELSE listener
                   /\ UNCHANGED <<midi_input, timer_registered, pending,
                                  execution_queue, lastSeq>>
              ELSE /\ midi_input' = IF openOk THEN "open"
                                              ELSE r.state.midi_input
                   /\ is_connected' =
                          IF engine = "polling" THEN openOk
                                                ELSE r.state.is_connected
                   /\ timer_registered' = openOk
                   /\ listener' = IF openOk THEN "running" ELSE "stopped"
                   /\ pending' = << >>
                   /\ lastSeq' = lastSeq + Len(pending)
                   /\ execution_queue' = QueueAfterStop(execution_queue)
    /\ UNCHANGED <<engine, mappings, animation_states, monitor, pc, applied,
                   produced>>

\* MIDI_OT_RemoveMapping: the mapping at index leaves the list; the dict
\* animation_states is not touched
RemoveMapping ==
    /\ UNCHANGED outVars
    /\ pc = "idle"
    /\ \E index \in 1..Len(mappings) :
          mappings' = [k \in 1..(Len(mappings) - 1) |->
                          IF k < index THEN mappings[k] ELSE mappings[k + 1]]
    /\ UNCHANGED <<engine, animation_states, midi_input, is_connected,
                   timer_registered, pending, execution_queue, monitor, pc,
                   applied, produced, lastSeq, listener>>

\* MIDI_OT_AddMapping: a new mapping at the end of the list, with the
\* defaults of MidiMapping, the id and type of the last event seen by the
\* monitor, and one new target
AddMapping ==
    /\ UNCHANGED outVars
    /\ pc = "idle"
    /\ Len(mappings) < MaxMappings
    /\ mappings' =
          Append(mappings,
                 IF monitor.id # -1
                 THEN Mapping(monitor.id, monitor.type = "Note", SpeedOne \div 10,
                              <<Target("SET", ExprNone)>>)
                 ELSE Mapping(0, FALSE, SpeedOne \div 10,
                              <<Target("SET", ExprNone)>>))
    /\ UNCHANGED <<engine, animation_states, midi_input, is_connected,
                   timer_registered, pending, execution_queue, monitor, pc,
                   applied, produced, lastSeq, listener>>

Next ==
    \/ Deliver
    \/ Tick
    \/ PollPending
    \/ QueueEmpty
    \/ QueueGet
    \/ StopListening
    \/ StartListening
    \/ RemoveMapping

Spec == Init /\ [][Next]_vars

\* a scene saved with its knobs turned: target_value is a property of the
\* mapping and comes back with the file, animation_states starts empty
EditConfigs ==
    {<<[SlowKnob EXCEPT !.target_value = Norm127(64)],
       [FastKnob EXCEPT !.target_value = ONE]>>,
     <<[MotorKey EXCEPT !.target_value = ONE],
       [ClockKnob EXCEPT !.target_value = Norm127(13)]>>}

EditInit == InitFrom(EditConfigs)

\* a listener without events, and mappings added to and removed from the
\* scene between its ticks
EditNext ==
    \/ StartListening
    \/ Tick
    \/ PollPending
    \/ QueueEmpty
    \/ AddMapping
    \/ RemoveMapping

EditSpec == EditInit /\ [][EditNext]_vars

\* the steps of the tick callback; the host's timer runs a registered
\* callback again and again, and a started callback runs to its end
TickStep == Tick \/ PollPending \/ QueueEmpty \/ QueueGet

FairSpec == Init /\ [][Next]_vars /\ WF_vars(TickStep)

\* the same for the lists of one smoothed mapping
InitSmooth == InitFrom(SmoothConfigs)

FairSmoothSpec == InitSmooth /\ [][Next]_vars /\ WF_vars(TickStep)

----------------------------------------------------------------------------
\* the tick callback is registered and, in the polling snapshot, gets past
\* its  if not is_connected or midi_input is None  return
Running ==
    /\ timer_registered
    /\ engine = "polling" => (is_connected /\ midi_input = "open")

Smoothed(i) == mappings[i].smooth_speed < SpeedOne

\* C1: for every smooth_speed below 1.0, if the listener keeps running and the
\* mapping and its target_value stay fixed, then after finitely many ticks
\* animation_states[i] is within 0.001 of target_value, and from then on no
\* tick changes animation_states.
C1_SmoothingConverges ==
    (<>[]Running /\ <>[][mappings' = mappings]_vars)
        => /\ <>[](\A i \in 1..Len(mappings) :
                     Smoothed(i) =>
                        /\ i \in DOMAIN animation_states
                        /\ Abs(animation_states[i] - mappings[i].target_value)
                               < SnapEps)
           /\ <>[][animation_states' = animation_states]_vars

\* a smoothed mapping that has come to rest within 0.001 of its target without
\* being equal to it
C1_Witness ==
    /\ pc = "idle"
    /\ Running
    /\ \E i \in 1..Len(mappings) :
          /\ Smoothed(i)
          /\ i \in DOMAIN animation_states
          /\ animation_states[i] # mappings[i].target_value
          /\ Abs(animation_states[i] - mappings[i].target_value) < SnapEps


----------------------------------------------------------------------------
\* the step of a tick that ends its drain and runs the animation loop
AnimateStep == pc # "idle" /\ pc' = "idle"

Between(a, x, b) == (a <= x /\ x <= b) \/ (b <= x /\ x <= a)

\* the smoothed value a tick starts from: the stored one, or the seed
Previous(i) ==
    IF i \in DOMAIN animation_states THEN animation_states[i]
                                     ELSE mappings[i].target_value

C2_NoOvershoot ==
    [][AnimateStep =>
          \A i \in 1..Len(mappings) :
             /\ Between(Previous(i), animation_states'[i],
                        mappings[i].target_value)
             /\ mappings[i].smooth_speed >= SpeedOne
                   => \/ animation_states'[i] = mappings[i].target_value
                      \/ /\ engine = "polling"
                         /\ Abs(Previous(i) - mappings[i].target_value)
                               <= WriteEps
                         /\ animation_states'[i] = Previous(i)]_vars

C3_ValuesInUnitRange ==
    \A i \in 1..Len(mappings) :
       /\ 0 <= mappings[i].target_value
       /\ mappings[i].target_value <= ONE
       /\ i \in DOMAIN animation_states
             => (0 <= animation_states[i] /\ animation_states[i] <= ONE)

\* a mapping on its way to the target 1.0
C3_Witness ==
    \E i \in 1..Len(mappings) :
       /\ mappings[i].target_value = ONE
       /\ i \in DOMAIN animation_states
       /\ 0 < animation_states[i]
       /\ animation_states[i] < ONE

----------------------------------------------------------------------------
(* Events as the transport sent them: the message at the head of the       *)
(* buffer, by its type, its control or note number and its value.          *)

Buffer == IF engine = "polling" THEN pending ELSE execution_queue

\* 1/127 as a normalised value (ONE is a multiple of 127)
OneOver127 == ONE \div MidiMax

\* the step of a tick that takes the event at the head of the buffer
DrainStep ==
    \/ /\ engine = "polling"
       /\ pc = "drain"
       /\ pending # << >>
       /\ pending' = Tail(pending)
    \/ /\ engine = "queue"
       /\ pc = "get"
       /\ execution_queue # << >>
       /\ execution_queue' = Tail(execution_queue)

HeadType ==
    IF engine = "polling" THEN Head(pending).type
                          ELSE Head(execution_queue).raw

HeadId ==
    IF engine = "polling" THEN Head(pending).num
                          ELSE Head(execution_queue).m_id

HeadValue ==
    IF engine = "polling" THEN Head(pending).val
                          ELSE Head(execution_queue).m_val

\* the mapping's input id is the event's, and its mode fits the event's kind
Accepts(m) ==
    /\ m.midi_cc = HeadId
    /\ \/ m.use_note /\ HeadType \in {"note_on", "note_off"}
       \/ ~m.use_note /\ HeadType = "control_change"

\* C4: processing one event leaves the target_value of every mapping that
\* does not accept it (other id, or mode not matching the kind) unchanged, and
\* sets the target_value of every accepting mapping, not only the first, to
\* the value that mapping's mode gives the event.
C4_RoutingByIdAndMode ==
    [][DrainStep =>
          /\ Len(mappings') = Len(mappings)
          /\ \A i \in 1..Len(mappings) :
                IF Accepts(mappings[i])
                THEN mappings'[i].target_value =
                        IF mappings[i].use_note
                        THEN (IF HeadValue > 0 /\ HeadType = "note_on"
                              THEN ONE ELSE 0)
                        ELSE HeadValue * OneOver127
                ELSE mappings'[i] = mappings[i]]_vars

\* both mappings on the id of a knob event of value 64 hold 64/127: the event
\* updated the second one as well as the first
C4_Witness ==
    /\ Len(mappings) = 2
    /\ mappings[1].midi_cc = mappings[2].midi_cc
    /\ mappings[1].target_value = 64 * OneOver127
    /\ mappings[2].target_value = 64 * OneOver127

\* C5: an accepted knob event with value v sets target_value to v/127; an
\* accepted note-on sets it to 1.0 when its velocity is above 0, whatever the
\* velocity, and to 0.0 when it is 0; an accepted note-off sets it to 0.0.
C5_TargetOfAcceptedEvent ==
    [][DrainStep =>
          \A i \in 1..Len(mappings) :
             Accepts(mappings[i]) =>
                CASE HeadType = "control_change" ->
                        mappings'[i].target_value = HeadValue * OneOver127
                  [] HeadType = "note_on" ->
                        mappings'[i].target_value =
                           IF HeadValue > 0 THEN ONE ELSE 0
                  [] HeadType = "note_off" ->
                        mappings'[i].target_value = 0]_vars

\* the last event was a note-on of velocity 64 and a key-mode mapping on its
\* id has the target 1.0
C5_Witness ==
    /\ monitor = [type |-> "Note", id |-> 0, val |-> 64]
    /\ \E i \in 1..Len(mappings) :
          /\ mappings[i].use_note
          /\ mappings[i].midi_cc = 0
          /\ mappings[i].target_value = ONE

\* the last event taken from the buffer, as a mapping in mode use_note on id
\* midi_cc sees it: accepted or not
MonitorAccepted(m) ==
    /\ m.midi_cc = monitor.id
    /\ m.use_note <=> (monitor.type = "Note")

\* C6: while events are put and ticks run in any interleaving, the events in
\* the buffer are exactly those not yet taken, in the order they were put, a
\* tick takes the oldest one; a mapping that accepted the last event taken
\* holds that event's target; get() is never reached with the queue empty; a
\* drain ends only on an empty buffer, and every started tick ends.
C6_FifoNonBlockingDrain ==
    /\ [](/\ lastSeq + Len(Buffer) = produced
          /\ \A k \in 1..Len(Buffer) : Buffer[k].seq = lastSeq + k
          /\ pc = "get" => execution_queue # << >>
          /\ \A i \in 1..Len(mappings) :
                MonitorAccepted(mappings[i]) =>
                   mappings[i].target_value =
                      IF mappings[i].use_note
                      THEN (IF monitor.val > 0 THEN ONE ELSE 0)
                      ELSE monitor.val * OneOver127)
    /\ [][AnimateStep => Buffer = << >>]_vars
    /\ ((pc # "idle") ~> (pc = "idle" /\ Buffer = << >>))

\* a second event was put while a tick was taking the first
C6_Witness ==
    /\ pc # "idle"
    /\ lastSeq = 1
    /\ Len(Buffer) = 1

\* C7: an event that was in the queue when stop_listening returned
\* never changes a target_value afterwards.
C7_QueuedEventsDroppedAtStop ==
    [][(DrainStep /\ engine = "queue" /\ Head(execution_queue).stale)
          => \A i \in 1..Len(mappings) :
                mappings'[i].target_value = mappings[i].target_value]_vars

\* a running listener whose queue starts with an event from before the stop
C7_Witness ==
    /\ engine = "queue"
    /\ listener = "running"
    /\ execution_queue # << >>
    /\ Head(execution_queue).stale

\* C8: after stop_listening has returned and until start_listening succeeds,
\* the tick callback is not registered and no tick is in progress, no event
\* leaves the buffer, no smoothed value changes and nothing is applied.
C8_NoTickWhileStopped ==
    /\ [](listener = "stopped" => (~timer_registered /\ pc = "idle"))
    /\ [][(listener = "stopped" /\ listener' = "stopped")
             => UNCHANGED <<animation_states, applied, lastSeq, monitor, pc>>
       ]_vars

\* stopped after ticks have run, with an event still in the queue
C8_Witness ==
    /\ listener = "stopped"
    /\ DOMAIN animation_states # {}
    /\ execution_queue # << >>

\* C9: stop_listening called when the listener is already stopped, or was
\* never started, raises nothing and leaves midi_input, is_connected and the
\* timer registration as they are.
C9_StopIdempotent ==
    listener \in {"never", "stopped"} =>
       \A closeOk \in BOOLEAN :
          StopEffect(EngineState, closeOk) =
             [state |-> EngineState, raised |-> FALSE]

\* stopped after having run
C9_Witness ==
    /\ listener = "stopped"
    /\ midi_input = "none"
    /\ produced > 0

\* C10: every tick of a running polling listener applies every
\* target of a continuously active mapping, whatever value it rests at.
C10_ContinuousAppliedEveryTick ==
    [][(AnimateStep /\ engine = "polling")
          => \A i \in 1..Len(mappings) :
                IsContinuous(mappings[i]) =>
                   \A k \in 1..Len(mappings[i].targets) :
                      <<i, k>> \in applied']_vars

\* a running polling listener whose last animation pass applied nothing, with
\* a continuously active mapping in the list
C10_Witness ==
    /\ engine = "polling"
    /\ pc = "idle"
    /\ Running
    /\ applied = {}
    /\ \E i \in 1..Len(mappings) :
          /\ IsContinuous(mappings[i])
          /\ i \in DOMAIN animation_states

----------------------------------------------------------------------------
(* Easing.  Progress t is taken on the tenths, t = k/10, where every curve *)
(* has an exact value: 2^(-10t) = 2^(-k), and the sine of ELASTIC_OUT is   *)
(* -1 or 1/2.  Values are in units of 1/EaseOne.                           *)

\* 1.0 as an eased value: 2^10 * 5^8, the least unit in which 2^-10,
\* c1/1000 and 1/6400 are whole
EaseOne == 1024 * 390625

\* the values of t: the tenths of [0, 1], and -0.5 and 1.5
Progress == {-5, 15} \cup 0..10

\* if t < 0: t = 0 / if t > 1: t = 1
ClampProgress(k) == IF k < 0 THEN 0 ELSE IF k > 10 THEN 10 ELSE k

\* 2 ** e
Pow2(e) == IF e = 0 THEN 1
           ELSE IF e = 1 THEN 2
           ELSE IF e = 2 THEN 4
           ELSE IF e = 3 THEN 8
           ELSE IF e = 4 THEN 16
           ELSE IF e = 5 THEN 32
           ELSE IF e = 6 THEN 64
           ELSE IF e = 7 THEN 128
           ELSE IF e = 8 THEN 256
           ELSE IF e = 9 THEN 512
           ELSE IF e = 10 THEN 1024
           ELSE 2048

\* t * t
QuadIn(k) == k * k * (EaseOne \div 100)

\* 1 - (1 - t) * (1 - t)
QuadOut(k) == EaseOne - (10 - k) * (10 - k) * (EaseOne \div 100)

\* QUAD_INOUT with the test of its conditional turned round
QuadInOutSwapped(k) ==
    IF k >= 5 THEN 2 * k * k * (EaseOne \div 100)
    ELSE EaseOne - (20 - 2 * k) * (20 - 2 * k) * (EaseOne \div 200)

\* 2 * t * t if t < 0.5 else 1 - math.pow(-2 * t + 2, 2) / 2
QuadInOut(k) ==
    IF k < 5 THEN 2 * k * k * (EaseOne \div 100)
    ELSE EaseOne - (20 - 2 * k) * (20 - 2 * k) * (EaseOne \div 200)

\* 1 - math.pow(1 - t, 3)
CubicOut(k) == EaseOne - (10 - k) * (10 - k) * (10 - k) * (EaseOne \div 1000)

\* 1 if t == 1 else 1 - math.pow(2, -10 * t)
ExpoOut(k) == IF k = 10 THEN EaseOne ELSE EaseOne - EaseOne \div Pow2(k)

\* c1 = 1.70158, in units of 0.00001
BackC1 == 170158
\* c3 = c1 + 1
BackC3 == BackC1 + 100000

\* 1 + c3 * math.pow(t - 1, 3) + c1 * math.pow(t - 1, 2)
BackOut(k) ==
    EaseOne
      + BackC3 * (k - 10) * (k - 10) * (k - 10) * (EaseOne \div 100000000)
      + BackC1 * (k - 10) * (k - 10) * (EaseOne \div 10000000)

\* math.sin((t * 10 - 0.75) * c4), c4 = 2 pi / 3, at t = k/10: the sine of
\* 2 pi k / 3 - pi / 2, which is -1 when 3 divides k and 1/2 otherwise;
\* the result is twice the sine
TwiceElasticSine(k) == IF k % 3 = 0 THEN -2 ELSE 1

\* 0 if t == 0, 1 if t == 1,
\* else math.pow(2, -10 * t) * math.sin((t * 10 - 0.75) * c4) + 1
ElasticOut(k) ==
    IF k = 0 THEN 0
    ELSE IF k = 10 THEN EaseOne
    ELSE EaseOne + TwiceElasticSine(k) * (EaseOne \div Pow2(k + 1))

\* n1 = 7.5625 = 121/16, d1 = 2.75 = 11/4: t < 1/d1 is 11 k < 40, and
\* n1 * (t - a/d1)^2 is (11 k - 40 a)^2 / 1600
BounceOut(k) ==
    IF 11 * k < 40
    THEN 121 * k * k * (EaseOne \div 1600)
    ELSE IF 11 * k < 80
    THEN (11 * k - 60) * (11 * k - 60) * (EaseOne \div 1600)
            + 3 * (EaseOne \div 4)
    ELSE IF 11 * k < 100
    THEN (11 * k - 90) * (11 * k - 90) * (EaseOne \div 1600)
            + 15 * (EaseOne \div 16)
    ELSE (22 * k - 210) * (22 * k - 210) * (EaseOne \div 6400)
            + 63 * (EaseOne \div 64)

\* src/__init__.py apply_easing, at t = k/10
apply_easing(k, mode) ==
    LET t == ClampProgress(k)
    IN  CASE mode = "LINEAR"      -> t * (EaseOne \div 10)
          [] mode = "QUAD_IN"     -> QuadIn(t)
          [] mode = "QUAD_OUT"    -> QuadOut(t)
          [] mode = "QUAD_INOUT"  -> QuadInOut(t)
          [] mode = "CUBIC_OUT"   -> CubicOut(t)
          [] mode = "EXPO_OUT"    -> ExpoOut(t)
          [] mode = "BACK_OUT"    -> BackOut(t)
          [] mode = "ELASTIC_OUT" -> ElasticOut(t)
          [] mode = "BOUNCE_OUT"  -> BounceOut(t)
          [] OTHER                -> t * (EaseOne \div 10)

\* src/MidiControl.py apply_easing, at t = k/10
apply_easing_queue(k, mode) ==
    LET t == ClampProgress(k)
    IN  CASE mode = "LINEAR"     -> t * (EaseOne \div 10)
          [] mode = "EASE_IN"    -> t * t * (EaseOne \div 100)
          [] mode = "EASE_OUT"   -> t * (20 - t) * (EaseOne \div 100)
          [] mode = "SMOOTHSTEP" -> t * t * (30 - 2 * t) * (EaseOne \div 1000)
          [] OTHER               -> t * (EaseOne \div 10)

(* What double arithmetic adds at the ends.  The double nearest 1.70158 is *)
(* 0x1.b39abf3387161p+0: counted in units of 2^-52, its last two binary    *)
(* places are 01.                                                          *)
BackC1LowBits == 1

\* c3 = c1 + 1 lies in [2, 4), where doubles are 2^-51 apart: the sum is
\* rounded to a multiple of 2 units of 2^-52, a tie going to the multiple
\* of 4 (the even mantissa).  The rounding error c3 - (c1 + 1), in units.
BackC3Rounding ==
    CASE BackC1LowBits % 2 = 0 -> 0
      [] BackC1LowBits % 4 = 1 -> -1
      [] OTHER                 -> 1

\* the double returned at t = 0 or t = 1, less the exact value, in units of
\* 2^-52.  BACK_OUT at t = 0: pow(-1, 3) = -1, pow(-1, 2) = 1, and
\* 1 + c3 * -1 and its sum with c1 are exact, so what is returned is
\* (c1 + 1) - c3; at t = 1 both powers are 0.  The other modes return their
\* 0 and 1 unrounded.
EndRounding(k, mode) ==
    IF mode = "BACK_OUT" /\ ClampProgress(k) = 0 THEN 0 - BackC3Rounding ELSE 0

\* the easing_mode items, and a mode that is none of them
EasingModes ==
    {"LINEAR", "QUAD_IN", "QUAD_OUT", "QUAD_INOUT", "CUBIC_OUT", "EXPO_OUT",
     "BACK_OUT", "ELASTIC_OUT", "BOUNCE_OUT", "SPRING"}

\* the modes of src/MidiControl.py, and a mode that is none of them
EasingModesQueue == {"LINEAR", "EASE_IN", "EASE_OUT", "SMOOTHSTEP", "SPRING"}

\* apply_easing(t, mode), of the snapshot that runs
Ease ==
    /\ \E k \in Progress,
          mode \in IF engine = "polling" THEN EasingModes
                                         ELSE EasingModesQueue :
          /\ call' = [fn |-> "apply_easing", t |-> k, mode |-> mode]
          /\ ret' = IF engine = "polling"
                    THEN [value |-> apply_easing(k, mode),
                          ulps  |-> EndRounding(k, mode)]
                    ELSE [value |-> apply_easing_queue(k, mode), ulps |-> 0]
    /\ UNCHANGED <<engineVars, graph, file, writes>>

\* C18: for every easing mode apply_easing(0, mode) is 0 and
\* apply_easing(1, mode) is 1, an input below 0 or above 1 gives what 0 or 1
\* gives, and a mode that is none of the items gives what LINEAR gives.
C18_EasingEndsClampFallback ==
    call.fn = "apply_easing" =>
       /\ call.t <= 0 => (ret.value = 0 /\ ret.ulps = 0)
       /\ call.t >= 10 => (ret.value = EaseOne /\ ret.ulps = 0)
       /\ call.mode = "SPRING"
             => ret.value = ClampProgress(call.t) * (EaseOne \div 10)

\* BACK_OUT was applied to 0 and returned a double that is not 0
C18_Witness ==
    /\ call.fn = "apply_easing"
    /\ call.mode = "BACK_OUT"
    /\ call.t = 0
    /\ ret.ulps # 0

\* C19: the curved value of a smoothed value in [0, 1] is in [0, 1], for
\* every easing mode.
C19_CurvedValueInUnitRange ==
    (call.fn = "apply_easing" /\ call.t \in 0..10)
        => (0 <= ret.value /\ ret.value <= EaseOne)

\* C19 with the two overshooting curves set apart: the curved value of a
\* smoothed value in [0, 1] is in [0, 1] for every easing mode but BACK_OUT
\* and ELASTIC_OUT, where it is at least 0 and at most 1.38.
C19_CurvedValueRange ==
    (call.fn = "apply_easing" /\ call.t \in 0..10)
        => /\ 0 <= ret.value
           /\ ret.value <= EaseOne + 38 * (EaseOne \div 100)
           /\ call.mode \notin {"BACK_OUT", "ELASTIC_OUT"}
                 => ret.value <= EaseOne

\* BACK_OUT has carried a smoothed value of [0, 1] above 1
C19_Witness ==
    /\ call.fn = "apply_easing"
    /\ call.mode = "BACK_OUT"
    /\ call.t \in 0..10
    /\ ret.value > EaseOne

----------------------------------------------------------------------------
(* Python values met on the way to a slot: None, strings, the objects of   *)
(* bpy, a vector of an object, and what a raised exception leaves.         *)

PyNone  == [kind |-> "None"]
Raised  == [kind |-> "raised"]
Str(s)  == [kind |-> "str", v |-> s]
Obj(id) == [kind |-> "obj", id |-> id]
Vec(id) == [kind |-> "vec", id |-> id]

StrBpyDot == <<"b", "p", "y", ".">>
StrData == <<"d", "a", "t", "a">>
StrObjects == <<"o", "b", "j", "e", "c", "t", "s">>
StrCube == <<"C", "u", "b", "e">>
StrAB == <<"A", ".", "B">>
StrLocation == <<"l", "o", "c", "a", "t", "i", "o", "n">>
StrHideViewport ==
    <<"h", "i", "d", "e", "_", "v", "i", "e", "w", "p", "o", "r", "t">>
StrPassIndex == <<"p", "a", "s", "s", "_", "i", "n", "d", "e", "x">>

\* the digits of str.isdigit and int()
Digits == {"0", "1", "2", "3", "4", "5", "6", "7", "8", "9"}

DigitValue(c) ==
    CASE c = "0" -> 0 [] c = "1" -> 1 [] c = "2" -> 2 [] c = "3" -> 3
      [] c = "4" -> 4 [] c = "5" -> 5 [] c = "6" -> 6 [] c = "7" -> 7
      [] c = "8" -> 8 [] c = "9" -> 9

\* s.isdigit()
IsDigit(s) == Len(s) > 0 /\ \A j \in 1..Len(s) : s[j] \in Digits

\* int(s) for a string of digits
RECURSIVE IntOf(_)
IntOf(s) ==
    IF Len(s) = 0 THEN 0
    ELSE 10 * IntOf(SubSeq(s, 1, Len(s) - 1)) + DigitValue(s[Len(s)])

\* s.startswith(prefix)
StartsWith(s, prefix) ==
    Len(s) >= Len(prefix) /\ SubSeq(s, 1, Len(prefix)) = prefix

\* s.endswith(c) for one character
EndsWithChar(s, c) == Len(s) > 0 /\ s[Len(s)] = c

\* c in s
HasChar(s, c) == \E j \in 1..Len(s) : s[j] = c

\* the place of the first c in s
FirstChar(s, c) == CHOOSE j \in 1..Len(s) : s[j] = c /\ \A i \in 1..(j - 1) : s[i] # c

\* s.split(c, 1): what is before the first c, and what is after it
SplitOnce(s, c) ==
    [base |-> SubSeq(s, 1, FirstChar(s, c) - 1),
     rest |-> SubSeq(s, FirstChar(s, c) + 1, Len(s))]

\* s.rstrip(c) for one character
RECURSIVE RStripChar(_, _)
RStripChar(s, c) ==
    IF EndsWithChar(s, c) THEN RStripChar(SubSeq(s, 1, Len(s) - 1), c) ELSE s

\* s.strip(chars)
RECURSIVE StripChars(_, _)
StripChars(s, cs) ==
    IF Len(s) > 0 /\ s[1] \in cs THEN StripChars(Tail(s), cs)
    ELSE IF Len(s) > 0 /\ s[Len(s)] \in cs
         THEN StripChars(SubSeq(s, 1, Len(s) - 1), cs)
         ELSE s

\* the string of the model that a sequence of characters spells; a name the
\* graph does not have spells "?"
Intern(s) ==
    CASE s = StrData         -> "data"
      [] s = StrObjects      -> "objects"
      [] s = StrCube         -> "Cube"
      [] s = StrAB           -> "A.B"
      [] s = StrLocation     -> "location"
      [] s = StrHideViewport -> "hide_viewport"
      [] s = StrPassIndex    -> "pass_index"
      [] OTHER               -> "?"

\* bpy.data.objects in its order
ObjectNames == <<"Cube", "A.B">>

\* getattr(obj, name) in the graph g; Raised for an AttributeError
GetAttr(g, obj, name) ==
    CASE obj = Obj("bpy") /\ Intern(name) = "data"        -> Obj("data")
      [] obj = Obj("data") /\ Intern(name) = "objects"    -> Obj("objects")
      [] obj.kind = "obj" /\ obj.id \in DOMAIN g
            /\ Intern(name) = "location"                  -> Vec(obj.id)
      [] obj.kind = "obj" /\ obj.id \in DOMAIN g
            /\ Intern(name) = "hide_viewport"  -> g[obj.id].hide_viewport
      [] obj.kind = "obj" /\ obj.id \in DOMAIN g
            /\ Intern(name) = "pass_index"     -> g[obj.id].pass_index
      [] OTHER                                            -> Raised

\* a collection that gives its first entry for a name it does not have
GetItemOrFirst(g, obj, key) ==
    CASE obj = Obj("objects") /\ key.kind = "str"
            /\ Intern(key.v) \in DOMAIN g                 -> Obj(Intern(key.v))
      [] obj = Obj("objects")                     -> Obj(ObjectNames[1])
      [] obj.kind = "vec" /\ key.kind = "int"
            /\ key.v + 1 \in DOMAIN g[obj.id].location
                                             -> g[obj.id].location[key.v + 1]
      [] OTHER                                            -> Raised

\* obj[key] in the graph g: a collection takes a name or a position, a
\* vector a position; Raised for a KeyError, IndexError or TypeError
GetItem(g, obj, key) ==
    CASE obj = Obj("objects") /\ key.kind = "str"
            /\ Intern(key.v) \in DOMAIN g                 -> Obj(Intern(key.v))
      [] obj = Obj("objects") /\ key.kind = "int"
            /\ key.v + 1 \in DOMAIN ObjectNames   -> Obj(ObjectNames[key.v + 1])
      [] obj.kind = "vec" /\ key.kind = "int"
            /\ key.v + 1 \in DOMAIN g[obj.id].location
                                             -> g[obj.id].location[key.v + 1]
      [] OTHER                                            -> Raised

----------------------------------------------------------------------------
(* Data paths: cutting a path into segments and walking the graph.         *)

SplitState0 ==
    [parts |-> << >>, current |-> << >>, in_quote |-> FALSE,
     in_bracket |-> FALSE, quote_char |-> "none"]

\* the characters at which the loop does more than lengthen current
SplitMarks == {"'", "\"", "[", "]", "."}

\* The loop of robust_path_split from place i on, with the state st it has
\* there.  The characters before the next mark lengthen current; the mark
\* takes the branch of the loop that is its own, and all but a dot that cuts
\* lengthen current too.
RECURSIVE SplitScan(_, _, _)
SplitScan(path, i, st) ==
    LET marks == {j \in i..Len(path) : path[j] \in SplitMarks}
        mark  == CHOOSE j \in marks : \A k \in marks : j <= k
        char  == path[mark]
        kept  == [st EXCEPT !.current = @ \o SubSeq(path, i, mark)]
    IN  IF marks = {}
        THEN [st EXCEPT !.current = @ \o SubSeq(path, i, Len(path))]
        ELSE IF char \in {"'", "\""}
        THEN IF ~st.in_quote
             THEN SplitScan(path, mark + 1,
                            [kept EXCEPT !.in_quote = TRUE, !.quote_char = char])
             ELSE IF char = st.quote_char
             THEN SplitScan(path, mark + 1,
                            [kept EXCEPT !.in_quote = FALSE, !.quote_char = "none"])
             ELSE SplitScan(path, mark + 1, kept)
        ELSE IF char = "["
        THEN IF ~st.in_quote
             THEN SplitScan(path, mark + 1, [kept EXCEPT !.in_bracket = TRUE])
             ELSE SplitScan(path, mark + 1, kept)
        ELSE IF char = "]"
        THEN IF ~st.in_quote
             THEN SplitScan(path, mark + 1, [kept EXCEPT !.in_bracket = FALSE])
             ELSE SplitScan(path, mark + 1, kept)
        ELSE IF ~st.in_quote /\ ~st.in_bracket
        THEN SplitScan(path, mark + 1,
                       [st EXCEPT !.parts = Append(@, st.current
                                                      \o SubSeq(path, i, mark - 1)),
                                  !.current = << >>])
        ELSE SplitScan(path, mark + 1, kept)

\* path.split('.'): a cut at every dot, whatever is around it
RECURSIVE split_dots(_)
split_dots(path) ==
    IF ~HasChar(path, ".") THEN <<path>>
    ELSE <<SplitOnce(path, ".").base>> \o split_dots(SplitOnce(path, ".").rest)

robust_path_split(path) ==
    LET st == SplitScan(path, 1, SplitState0)
    IN  IF Len(st.current) > 0 THEN Append(st.parts, st.current) ELSE st.parts

Resolved(obj, prop_name, index) ==
    [obj |-> obj, prop_name |-> prop_name, index |-> index]

\* the key between the brackets of a segment: a quoted string, a number, or
\* the raw text
KeyOf(key_raw) ==
    IF \/ StartsWith(key_raw, <<"\"">>) /\ EndsWithChar(key_raw, "\"")
       \/ StartsWith(key_raw, <<"'">>) /\ EndsWithChar(key_raw, "'")
    THEN Str(SubSeq(key_raw, 2, Len(key_raw) - 1))
    ELSE IF IsDigit(key_raw) THEN Whole(IntOf(key_raw)) ELSE Str(key_raw)

\* one segment of the way to the container
StepPart(g, obj, part) ==
    IF HasChar(part, "[") /\ EndsWithChar(part, "]")
    THEN LET base_name == SplitOnce(part, "[").base
             key_raw   == RStripChar(SplitOnce(part, "[").rest, "]")
             holder    == GetAttr(g, obj, base_name)
         IN  IF holder = Raised THEN Raised
             ELSE GetItem(g, holder, KeyOf(key_raw))
    ELSE GetAttr(g, obj, part)

RECURSIVE WalkParts(_, _, _)
WalkParts(g, obj, parts) ==
    IF Len(parts) = 0 \/ obj = Raised THEN obj
    ELSE WalkParts(g, StepPart(g, obj, Head(parts)), Tail(parts))

\* the name and the index of the last segment
TargetProp(target_prop) ==
    IF HasChar(target_prop, "[") /\ EndsWithChar(target_prop, "]")
    THEN LET idx_clean == RStripChar(SplitOnce(target_prop, "[").rest, "]")
         IN  [prop_name |-> SplitOnce(target_prop, "[").base,
              index     |-> IF IsDigit(idx_clean) THEN IntOf(idx_clean) ELSE -1]
    ELSE [prop_name |-> target_prop, index |-> -1]

resolve_path_with(split(_), g, path) ==
    IF ~StartsWith(path, StrBpyDot)
    THEN Resolved(PyNone, PyNone, Whole(-1))
    ELSE LET parts == split(path)
             obj   == WalkParts(g, Obj("bpy"), SubSeq(parts, 2, Len(parts) - 1))
             last  == TargetProp(parts[Len(parts)])
         IN  IF obj = Raised
             THEN Resolved(PyNone, PyNone, PyNone)
             ELSE Resolved(obj, Str(last.prop_name), Whole(last.index))

resolve_path(g, path) == resolve_path_with(robust_path_split, g, path)

\* the segment of the queue snapshot: the key loses its brackets and quotes
StepPartQueue(g, obj, part) ==
    IF HasChar(part, "[") /\ HasChar(part, "]")
    THEN LET base_name == SplitOnce(part, "[").base
             stripped  == StripChars(RStripChar(SplitOnce(part, "[").rest, "]"),
                                     {"'", "\""})
             key       == IF IsDigit(stripped) THEN Whole(IntOf(stripped))
                          ELSE Str(stripped)
             holder    == GetAttr(g, obj, base_name)
         IN  IF holder = Raised THEN Raised ELSE GetItem(g, holder, key)
    ELSE GetAttr(g, obj, part)

RECURSIVE WalkPartsQueue(_, _, _)
WalkPartsQueue(g, obj, parts) ==
    IF Len(parts) = 0 \/ obj = Raised THEN obj
    ELSE WalkPartsQueue(g, StepPartQueue(g, obj, Head(parts)), Tail(parts))

\* the last segment of the queue snapshot; int() of what is not a number
\* raises
TargetPropQueue(last_part) ==
    IF HasChar(last_part, "[") /\ HasChar(last_part, "]")
    THEN LET idx == RStripChar(SplitOnce(last_part, "[").rest, "]")
         IN  [prop_name |-> SplitOnce(last_part, "[").base,
              raised    |-> ~IsDigit(idx),
              index     |-> IF IsDigit(idx) THEN IntOf(idx) ELSE -1]
    ELSE [prop_name |-> last_part, raised |-> FALSE, index |-> -1]

resolve_path_queue(g, path) ==
    IF ~StartsWith(path, StrBpyDot)
    THEN Resolved(PyNone, PyNone, PyNone)
    ELSE LET parts == split_dots(path)
             obj   == WalkPartsQueue(g, Obj("bpy"),
                                     SubSeq(parts, 2, Len(parts) - 1))
             last  == TargetPropQueue(parts[Len(parts)])
         IN  IF obj = Raised \/ last.raised
             THEN Resolved(PyNone, PyNone, PyNone)
             ELSE Resolved(obj, Str(last.prop_name), Whole(last.index))

----------------------------------------------------------------------------
(* The data paths a target is given.                                       *)

\* bpy.data.objects['Cube'].location[0]
PathCubeX ==
    <<"b", "p", "y", ".", "d", "a", "t", "a", ".", "o", "b", "j", "e", "c",
      "t", "s", "[", "'", "C", "u", "b", "e", "'", "]", ".", "l", "o", "c",
      "a", "t", "i", "o", "n", "[", "0", "]">>

\* bpy.data.objects['A.B'].location[0]
PathABX ==
    <<"b", "p", "y", ".", "d", "a", "t", "a", ".", "o", "b", "j", "e", "c",
      "t", "s", "[", "'", "A", ".", "B", "'", "]", ".", "l", "o", "c", "a",
      "t", "i", "o", "n", "[", "0", "]">>

\* bpy.data.objects["Cube"].hide_viewport
PathHide ==
    <<"b", "p", "y", ".", "d", "a", "t", "a", ".", "o", "b", "j", "e", "c",
      "t", "s", "[", "\"", "C", "u", "b", "e", "\"", "]", ".", "h", "i",
      "d", "e", "_", "v", "i", "e", "w", "p", "o", "r", "t">>

\* bpy.data.objects[0].pass_index
PathPass ==
    <<"b", "p", "y", ".", "d", "a", "t", "a", ".", "o", "b", "j", "e", "c",
      "t", "s", "[", "0", "]", ".", "p", "a", "s", "s", "_", "i", "n", "d",
      "e", "x">>

\* data.objects['Cube'].location[0]
PathNoPrefix ==
    <<"d", "a", "t", "a", ".", "o", "b", "j", "e", "c", "t", "s", "[", "'",
      "C", "u", "b", "e", "'", "]", ".", "l", "o", "c", "a", "t", "i", "o",
      "n", "[", "0", "]">>

\* bpy.data.things['Cube'].location[0]
PathNoAttr ==
    <<"b", "p", "y", ".", "d", "a", "t", "a", ".", "t", "h", "i", "n", "g",
      "s", "[", "'", "C", "u", "b", "e", "'", "]", ".", "l", "o", "c", "a",
      "t", "i", "o", "n", "[", "0", "]">>

\* bpy.data.objects['Ball'].location[0]
PathNoKey ==
    <<"b", "p", "y", ".", "d", "a", "t", "a", ".", "o", "b", "j", "e", "c",
      "t", "s", "[", "'", "B", "a", "l", "l", "'", "]", ".", "l", "o", "c",
      "a", "t", "i", "o", "n", "[", "0", "]">>

\* bpy.data.objects['Cube'].location['x'].real
PathBadKey ==
    <<"b", "p", "y", ".", "d", "a", "t", "a", ".", "o", "b", "j", "e", "c",
      "t", "s", "[", "'", "C", "u", "b", "e", "'", "]", ".", "l", "o", "c",
      "a", "t", "i", "o", "n", "[", "'", "x", "'", "]", ".", "r", "e", "a",
      "l">>

\* bpy.data.objects['Cube'].scale
PathNoField ==
    <<"b", "p", "y", ".", "d", "a", "t", "a", ".", "o", "b", "j", "e", "c",
      "t", "s", "[", "'", "C", "u", "b", "e", "'", "]", ".", "s", "c", "a",
      "l", "e">>

\* bpy.data.objects['Cube'].location[7]
PathNoIndex ==
    <<"b", "p", "y", ".", "d", "a", "t", "a", ".", "o", "b", "j", "e", "c",
      "t", "s", "[", "'", "C", "u", "b", "e", "'", "]", ".", "l", "o", "c",
      "a", "t", "i", "o", "n", "[", "7", "]">>

\* bpy.data.objects[names[0].id].location[0]
PathNested ==
    <<"b", "p", "y", ".", "d", "a", "t", "a", ".", "o", "b", "j", "e", "c",
      "t", "s", "[", "n", "a", "m", "e", "s", "[", "0", "]", ".", "i", "d",
      "]", ".", "l", "o", "c", "a", "t", "i", "o", "n", "[", "0", "]">>

\* bpy.data.objects['Cube'].pass_index[x]
PathPassBadIndex ==
    <<"b", "p", "y", ".", "d", "a", "t", "a", ".", "o", "b", "j", "e", "c",
      "t", "s", "[", "'", "C", "u", "b", "e", "'", "]", ".", "p", "a", "s",
      "s", "_", "i", "n", "d", "e", "x", "[", "x", "]">>

\* bpy.data.objects['Cube'].location[]
PathLocEmpty ==
    <<"b", "p", "y", ".", "d", "a", "t", "a", ".", "o", "b", "j", "e", "c",
      "t", "s", "[", "'", "C", "u", "b", "e", "'", "]", ".", "l", "o", "c",
      "a", "t", "i", "o", "n", "[", "]">>

Paths ==
    {PathCubeX, PathABX, PathHide, PathPass, PathNoPrefix, PathNoAttr,
     PathNoKey, PathBadKey, PathNoField, PathNoIndex, PathNested,
     PathPassBadIndex, PathLocEmpty}

\* resolve_path(path) of the snapshot that runs, with the segments it cut
ResolvePath ==
    /\ \E path \in Paths :
          /\ call' = [fn |-> "resolve_path", path |-> path]
          /\ ret' = IF engine = "polling"
                    THEN [parts  |-> robust_path_split(path),
                          result |-> resolve_path(graph, path)]
                    ELSE [parts  |-> split_dots(path),
                          result |-> resolve_path_queue(graph, path)]
    /\ UNCHANGED <<engineVars, graph, file, writes>>

----------------------------------------------------------------------------
(* C15: where a path is cut.                                               *)

\* the quote that is open before place i of the path, "none" when none is:
\* what the last quote character before i did to the quote open before it
RECURSIVE QuoteBefore(_, _)
QuoteBefore(path, i) ==
    LET quotes == {j \in 1..(i - 1) : path[j] \in {"'", "\""}}
        last   == CHOOSE j \in quotes : \A k \in quotes : k <= j
        before == QuoteBefore(path, last)
    IN  IF quotes = {} THEN "none"
        ELSE IF before = "none" THEN path[last]
        ELSE IF before = path[last] THEN "none" ELSE before

\* how many brackets are open before place i of the path
DepthBefore(path, i) ==
    Cardinality({j \in 1..(i - 1) : path[j] = "[" /\ QuoteBefore(path, j) = "none"})
    - Cardinality({j \in 1..(i - 1) : path[j] = "]" /\ QuoteBefore(path, j) = "none"})

\* the dots outside brackets and outside quoted keys
OutsideDots(path) ==
    {i \in 1..Len(path) : /\ path[i] = "."
                          /\ QuoteBefore(path, i) = "none"
                          /\ DepthBefore(path, i) = 0}

RECURSIVE LenSum(_)
LenSum(parts) == IF Len(parts) = 0 THEN 0 ELSE Len(Head(parts)) + LenSum(Tail(parts))

\* the places of the path where the segments were cut
CutsOf(parts) ==
    {LenSum(SubSeq(parts, 1, k)) + k : k \in 1..(Len(parts) - 1)}

\* C15: a path is cut only at the dots outside brackets and outside quoted
\* keys, so that bpy.data.objects['A.B'].location[0] resolves to the entry
\* 'A.B', the field location and the index 0; a resolved path whose last
\* segment has no bracket suffix has the index -1.
C15_PathCutOutsideBracketsAndQuotes ==
    call.fn = "resolve_path" =>
        /\ CutsOf(ret.parts) = OutsideDots(call.path)
        /\ call.path = PathABX =>
              ret.result = Resolved(Obj("A.B"), Str(StrLocation), Whole(0))
        /\ (ret.result.obj # PyNone /\ ~EndsWithChar(call.path, "]")) =>
              ret.result.index = Whole(-1)

\* the queue snapshot has been given the path with the dotted key
C15_Witness ==
    /\ call.fn = "resolve_path"
    /\ engine = "queue"
    /\ call.path = PathABX
    /\ ret.result = Resolved(PyNone, PyNone, PyNone)

\* the polling snapshot keeps the dotted key whole
C15_PollingKeepsQuotedDots ==
    (call.fn = "resolve_path" /\ engine = "polling" /\ call.path # PathNested) =>
        /\ CutsOf(ret.parts) = OutsideDots(call.path)
        /\ call.path = PathABX =>
              ret.result = Resolved(Obj("A.B"), Str(StrLocation), Whole(0))

----------------------------------------------------------------------------
(* The expression evaluator of the polling snapshot.  Numbers are counted  *)
(* in Unit: an int and a float of the same worth are one value, a product  *)
(* or quotient is taken to the unit below.  A tree is what ast.parse gives *)
(* for the text.                                                           *)

Func(id) == [kind |-> "func", id |-> id]

\* math.pi, to the nearest unit
Pi == 3990

SAFE_FUNCTIONS ==
    [n \in {"sin", "cos", "tan", "pi", "sqrt", "pow", "abs", "round", "min",
            "max"} |-> IF n = "pi" THEN Float(Pi) ELSE Func(n)]

SAFE_OPERATORS == {"Add", "Sub", "Mult", "Div", "Pow", "USub", "UAdd"}

\* the nodes of a tree
Constant(value)        == [node |-> "Constant", value |-> value]
Name(id)               == [node |-> "Name", id |-> id]
BinOp(left, op, right) == [node |-> "BinOp", op |-> op, left |-> left, right |-> right]
UnaryOp(op, operand)   == [node |-> "UnaryOp", op |-> op, operand |-> operand]
Call(func, args)       == [node |-> "Call", func |-> func, args |-> args]
Attribute(value, attr) == [node |-> "Attribute", value |-> value, attr |-> attr]
Num(n)                 == Constant(Float(n * Unit))
SyntaxError            == [node |-> "SyntaxError"]

\* a to the power n, n whole and not negative
RECURSIVE PowInt(_, _)
PowInt(a, n) == IF n = 0 THEN Unit ELSE (a * PowInt(a, n - 1)) \div Unit

\* the operators of SAFE_OPERATORS on two values; Raised for a division by
\* zero and for operands that are not both numbers
ApplyOperator(op, a, b) ==
    IF a.kind # "float" \/ b.kind # "float" THEN Raised
    ELSE CASE op = "Add"  -> Float(a.v + b.v)
           [] op = "Sub"  -> Float(a.v - b.v)
           [] op = "Mult" -> Float((a.v * b.v) \div Unit)
           [] op = "Div"  -> IF b.v = 0 THEN Raised
                             ELSE Float((a.v * Unit) \div b.v)
           [] op = "Pow" /\ b.v >= 0 /\ b.v % Unit = 0
                          -> Float(PowInt(a.v, b.v \div Unit))

ApplyUnary(op, a) ==
    IF a.kind # "float" THEN Raised
    ELSE CASE op = "USub" -> Float(-a.v)
           [] op = "UAdd" -> a

\* the square root, to the unit below
ISqrt(u) == CHOOSE r \in 0..(u + Unit) : r * r <= u * Unit /\ u * Unit < (r + 1) * (r + 1)

\* sin, cos and tan at 0 and at 1, and sin at pi/2, to the nearest unit
Sin(u) == CASE u = 0 -> 0    [] u = Unit -> 1069 [] u = Pi \div 2 -> Unit
Cos(u) == CASE u = 0 -> Unit [] u = Unit -> 686
Tan(u) == CASE u = 0 -> 0    [] u = Unit -> 1978

\* round(x): to the nearest whole number, a half to the even one
RoundHalfEven(u) ==
    LET low == (u \div Unit) * Unit
    IN  IF 2 * (u - low) < Unit THEN low
        ELSE IF 2 * (u - low) > Unit THEN low + Unit
        ELSE IF (u \div Unit) % 2 = 0 THEN low ELSE low + Unit

RECURSIVE MinOf(_)
MinOf(args) ==
    IF Len(args) = 1 THEN args[1].v
    ELSE IF args[1].v <= MinOf(Tail(args)) THEN args[1].v ELSE MinOf(Tail(args))

RECURSIVE MaxOf(_)
MaxOf(args) ==
    IF Len(args) = 1 THEN args[1].v
    ELSE IF args[1].v >= MaxOf(Tail(args)) THEN args[1].v ELSE MaxOf(Tail(args))

\* SAFE_FUNCTIONS[name](*args): Raised for a wrong count of arguments, for an
\* argument that is not a number and for sqrt of a negative number
ApplyFunction(name, args) ==
    LET numbers == \A j \in 1..Len(args) : args[j].kind = "float"
        counted == CASE name \in {"sin", "cos", "tan", "sqrt", "abs"} -> Len(args) = 1
                     [] name = "pow"            -> Len(args) = 2
                     [] name = "round"          -> Len(args) \in {1, 2}
                     [] name \in {"min", "max"} -> Len(args) >= 2
    IN  IF ~counted \/ ~numbers THEN Raised
        ELSE CASE name = "sin"  -> Float(Sin(args[1].v))
               [] name = "cos"  -> Float(Cos(args[1].v))
               [] name = "tan"  -> Float(Tan(args[1].v))
               [] name = "sqrt" -> IF args[1].v < 0 THEN Raised
                                   ELSE Float(ISqrt(args[1].v))
               [] name = "pow" /\ args[2].v >= 0 /\ args[2].v % Unit = 0
                                -> Float(PowInt(args[1].v, args[2].v \div Unit))
               [] name = "abs"  -> Float(Abs(args[1].v))
               [] name = "round" /\ Len(args) = 1
                                -> Float(RoundHalfEven(args[1].v))
               [] name = "min"  -> Float(MinOf(args))
               [] name = "max"  -> Float(MaxOf(args))

\* a lookup that falls back on the builtin of that name
ContextGetBuiltins(context, id) ==
    IF id \in DOMAIN context THEN context[id] ELSE Func(id)

\* context.get(id, 0.0)
ContextGet(context, id) ==
    IF id \in DOMAIN context THEN context[id] ELSE Float(0)

\* What an evaluation leaves: whether it raised, its value, the functions
\* that were called, the names that were looked up with what they gave, and
\* whether some part of it failed (it raised, or it was a node, an operator
\* or a callee that is not supported).
Evaluated(value) ==
    [raised |-> FALSE, value |-> value, executed |-> {}, resolved |-> {},
     failed |-> FALSE]

\* return 0.0 at the end of _eval_node
FallThrough == [Evaluated(Float(0)) EXCEPT !.failed = TRUE]

\* ev after what came before it
After(before, ev) ==
    [ev EXCEPT !.executed = before.executed \cup ev.executed,
               !.resolved = before.resolved \cup ev.resolved,
               !.failed   = before.failed \/ ev.failed]

\* ev with the value of its last step
Finish(ev, value) ==
    IF value = Raised
    THEN [ev EXCEPT !.raised = TRUE, !.value = Raised, !.failed = TRUE]
    ELSE [ev EXCEPT !.value = value]

RECURSIVE eval_node(_, _)
RECURSIVE eval_args(_, _)

\* [_eval_node(arg, context) for arg in node.args]: it stops where one raises
eval_args(args, context) ==
    IF Len(args) = 0 THEN [Evaluated(<< >>) EXCEPT !.value = << >>]
    ELSE LET first == eval_node(Head(args), context)
         IN  IF first.raised THEN first
             ELSE LET rest == After(first, eval_args(Tail(args), context))
                  IN  IF rest.raised THEN rest
                      ELSE [rest EXCEPT !.value = <<first.value>> \o rest.value]

eval_node(node, context) ==
    CASE node.node = "Constant" -> Evaluated(node.value)
      [] node.node = "Name" ->
            [Evaluated(ContextGet(context, node.id)) EXCEPT
                !.resolved = {<<node.id, ContextGet(context, node.id)>>}]
      [] node.node = "BinOp" ->
            IF node.op \notin SAFE_OPERATORS THEN FallThrough
            ELSE LET left == eval_node(node.left, context)
                 IN  IF left.raised THEN left
                     ELSE LET right == After(left, eval_node(node.right, context))
                          IN  IF right.raised THEN right
                              ELSE Finish(right, ApplyOperator(node.op, left.value,
                                                               right.value))
      [] node.node = "UnaryOp" ->
            IF node.op \notin SAFE_OPERATORS THEN FallThrough
            ELSE LET operand == eval_node(node.operand, context)
                 IN  IF operand.raised THEN operand
                     ELSE Finish(operand, ApplyUnary(node.op, operand.value))
      [] node.node = "Call" ->
            IF node.func.node # "Name"
            THEN Finish(Evaluated(Raised), Raised)
            ELSE IF node.func.id \notin DOMAIN SAFE_FUNCTIONS THEN FallThrough
            ELSE LET args == eval_args(node.args, context)
                 IN  IF args.raised THEN args
                     ELSE IF SAFE_FUNCTIONS[node.func.id].kind # "func"
                     THEN Finish(args, Raised)
                     ELSE Finish([args EXCEPT !.executed = @ \cup {node.func.id}],
                                 ApplyFunction(node.func.id, args.value))
      [] OTHER -> FallThrough

----------------------------------------------------------------------------
(* The expressions a target is given, and their trees.                     *)

\* one space
ExprBlank == <<" ">>

\* 2 + 3 * x
ExprAffine == <<"2", " ", "+", " ", "3", " ", "*", " ", "x">>

\* sin(pi/2)
ExprSinPi == <<"s", "i", "n", "(", "p", "i", "/", "2", ")">>

\* __import__('os')
ExprImport ==
    <<"_", "_", "i", "m", "p", "o", "r", "t", "_", "_", "(", "'", "o", "s",
      "'", ")">>

\* 1 + foo(2)
ExprFoo == <<"1", " ", "+", " ", "f", "o", "o", "(", "2", ")">>

\* 1/0
ExprDivZero == <<"1", "/", "0">>

\* sqrt(0-1)
ExprSqrtNeg == <<"s", "q", "r", "t", "(", "0", "-", "1", ")">>

\* pow(2)
ExprPowOne == <<"p", "o", "w", "(", "2", ")">>

\* 1 + 2 % 3
ExprMod == <<"1", " ", "+", " ", "2", " ", "%", " ", "3">>

\* x +
ExprBroken == <<"x", " ", "+">>

\* y
ExprUnbound == <<"y">>

\* sin
ExprSinName == <<"s", "i", "n">>

\* os.system(1)
ExprOsSystem == <<"o", "s", ".", "s", "y", "s", "t", "e", "m", "(", "1", ")">>

\* -x
ExprNeg == <<"-", "x">>

\* abs(0 - x)
ExprAbs == <<"a", "b", "s", "(", "0", " ", "-", " ", "x", ")">>

\* pi(1)
ExprPiCall == <<"p", "i", "(", "1", ")">>

\* x.real
ExprAttr == <<"x", ".", "r", "e", "a", "l">>

\* 2 ** 3
ExprPow == <<"2", " ", "*", "*", " ", "3">>

\* max(x, 1)
ExprMax == <<"m", "a", "x", "(", "x", ",", " ", "1", ")">>

Expressions ==
    {ExprNone, ExprX, ExprSinTime, ExprBlank, ExprAffine, ExprSinPi,
     ExprImport, ExprFoo, ExprDivZero, ExprSqrtNeg, ExprPowOne, ExprMod,
     ExprBroken, ExprUnbound, ExprSinName, ExprOsSystem, ExprNeg, ExprAbs,
     ExprPiCall, ExprAttr, ExprPow, ExprMax}

\* ast.parse(expression, mode='eval').body; SyntaxError where it raises one
parse(expression) ==
    CASE expression = ExprNone     -> SyntaxError
      [] expression = ExprBlank    -> SyntaxError
      [] expression = ExprX        -> BinOp(Name("x"), "Mult", Num(2))
      [] expression = ExprSinTime  -> Call(Name("sin"), <<Name("time")>>)
      [] expression = ExprAffine   ->
            BinOp(Num(2), "Add", BinOp(Num(3), "Mult", Name("x")))
      [] expression = ExprSinPi    ->
            Call(Name("sin"), <<BinOp(Name("pi"), "Div", Num(2))>>)
      [] expression = ExprImport   ->
            Call(Name("__import__"), <<Constant(Str(<<"o", "s">>))>>)
      [] expression = ExprFoo      ->
            BinOp(Num(1), "Add", Call(Name("foo"), <<Num(2)>>))
      [] expression = ExprDivZero  -> BinOp(Num(1), "Div", Num(0))
      [] expression = ExprSqrtNeg  ->
            Call(Name("sqrt"), <<BinOp(Num(0), "Sub", Num(1))>>)
      [] expression = ExprPowOne   -> Call(Name("pow"), <<Num(2)>>)
      [] expression = ExprMod      ->
            BinOp(Num(1), "Add", BinOp(Num(2), "Mod", Num(3)))
      [] expression = ExprBroken   -> SyntaxError
      [] expression = ExprUnbound  -> Name("y")
      [] expression = ExprSinName  -> Name("sin")
      [] expression = ExprOsSystem ->
            Call(Attribute(Name("os"), "system"), <<Num(1)>>)
      [] expression = ExprNeg      -> UnaryOp("USub", Name("x"))
      [] expression = ExprAbs      ->
            Call(Name("abs"), <<BinOp(Num(0), "Sub", Name("x"))>>)
      [] expression = ExprPiCall   -> Call(Name("pi"), <<Num(1)>>)
      [] expression = ExprAttr     -> Attribute(Name("x"), "real")
      [] expression = ExprPow      -> BinOp(Num(2), "Pow", Num(3))
      [] expression = ExprMax      -> Call(Name("max"), <<Name("x"), Num(1)>>)

Whitespace == {" ", "\t", "\n"}

\* not expression or not expression.strip()
Blank(expression) == StripChars(expression, Whitespace) = << >>

\* float(value): Raised for a function and for a string that spells no number
ToFloat(value) == IF value.kind = "float" THEN value ELSE Raised

\* What safe_evaluate_expression returns, in Unit, with what the evaluation
\* left behind.
safe_evaluate_expression(expression, context) ==
    IF Blank(expression)
    THEN [value |-> 0, executed |-> {}, resolved |-> {}, failed |-> FALSE]
    ELSE IF parse(expression) = SyntaxError
    THEN [value |-> 0, executed |-> {}, resolved |-> {}, failed |-> TRUE]
    ELSE LET ev == eval_node(parse(expression), context)
         IN  IF ev.raised \/ ToFloat(ev.value) = Raised
             THEN [value |-> 0, executed |-> ev.executed,
                   resolved |-> ev.resolved, failed |-> TRUE]
             ELSE [value |-> ev.value.v, executed |-> ev.executed,
                   resolved |-> ev.resolved, failed |-> ev.failed]

\* frames per second of the scene
Fps == 24

\* math_ctx: the allow-list with frame, time and x
MathContext(x, frame) ==
    [n \in DOMAIN SAFE_FUNCTIONS \cup {"frame", "time", "x"} |->
        CASE n = "frame" -> Float(frame * Unit)
          [] n = "time"  -> Float((frame * Unit) \div Fps)
          [] n = "x"     -> Float(x)
          [] OTHER       -> SAFE_FUNCTIONS[n]]

\* the values of x: 0, 1/2, 64/127 and 1
Inputs == {0, Unit \div 2, 64 * 10, Unit}

\* the frames of the scene: the first, and the one a second later
Frames == {0, Fps}

\* safe_evaluate_expression(expression, math_ctx)
Evaluate ==
    /\ engine = "polling"
    /\ \E expression \in Expressions, x \in Inputs, frame \in Frames :
          /\ call' = [fn |-> "safe_evaluate_expression",
                      expression |-> expression, x |-> x, frame |-> frame]
          /\ ret' = safe_evaluate_expression(expression, MathContext(x, frame))
    /\ UNCHANGED <<engineVars, graph, file, writes>>

----------------------------------------------------------------------------
(* C16, C17: the evaluator.                                                *)

\* C16: safe_evaluate_expression returns a float and never raises; when the
\* text does not parse, or some part of the evaluation fails (an operator or
\* node that is not supported, a call to a name outside the allow-list, a
\* wrong count of arguments, a division by zero, a domain error), the whole
\* call returns 0.0.
C16_AnyFailureGivesZero ==
    call.fn = "safe_evaluate_expression" =>
        /\ ret.value \in Int
        /\ ret.failed => ret.value = 0

\* 1 + foo(2) has been evaluated: the call failed, the sum is 1.0
C16_Witness ==
    /\ call.fn = "safe_evaluate_expression"
    /\ call.expression = ExprFoo
    /\ ret.failed
    /\ ret.value = Unit

\* what holds of C16: a float comes back, 0.0 when the text does not parse
\* and when something raised
C16_RaisedGivesZero ==
    (call.fn = "safe_evaluate_expression"
        /\ call.expression \in {ExprBroken, ExprDivZero, ExprSqrtNeg, ExprPowOne,
                                ExprOsSystem, ExprPiCall, ExprSinName}) =>
        ret.failed /\ ret.value = 0

\* the functions of the allow-list
Callables == {"sin", "cos", "tan", "sqrt", "pow", "abs", "round", "min", "max"}

\* C17: an evaluation calls only sin, cos, tan, sqrt, pow, abs, round, min
\* and max; a name resolves to the variable supplied under it (x, time,
\* frame), to the allow-list entry of that name, or to 0.0 when it is
\* neither; __import__('os') gives 0.0 and calls nothing; an evaluation
\* changes nothing of the engine or of the graph.
C17_OnlyAllowListAndVariables ==
    /\ [](call.fn = "safe_evaluate_expression" =>
            /\ ret.executed \subseteq Callables
            /\ \A r \in ret.resolved :
                  CASE r[1] = "x"     -> r[2] = Float(call.x)
                    [] r[1] = "frame" -> r[2] = Float(call.frame * Unit)
                    [] r[1] = "time"  -> r[2] = Float((call.frame * Unit) \div 24)
                    [] r[1] = "pi"    -> r[2] = Float(Pi)
                    [] r[1] \in Callables -> r[2] = Func(r[1])
                    [] OTHER          -> r[2] = Float(0)
            /\ call.expression = ExprImport =>
                  ret.value = 0 /\ ret.executed = {})
    /\ [][call'.fn = "safe_evaluate_expression" =>
            UNCHANGED <<engineVars, graph, file>>]_vars

\* __import__('os') has been evaluated: 0.0, and nothing was called
C17_Witness ==
    /\ call.fn = "safe_evaluate_expression"
    /\ call.expression = ExprImport
    /\ ret.value = 0
    /\ ret.executed = {}

----------------------------------------------------------------------------
(* apply_to_blender of the polling snapshot: one target, one write.        *)

MidiTarget(path, min, max, mode, expr) ==
    [data_path |-> path, min_value |-> min, max_value |-> max,
     drive_mode |-> mode, expression |-> expr]

\* what a slot's value is worth in a sum: True is 1, False is 0
NumberOf(value) ==
    CASE value.kind = "bool"  -> value.v * Unit
      [] value.kind = "int"   -> value.v * Unit
      [] value.kind = "float" -> value.v

\* the value of a target that looks at the absolute flag first
FinalValAbsoluteFirst(target, input_val, use_absolute_midi, frame) ==
    IF use_absolute_midi THEN input_val * 127
    ELSE IF StripChars(target.expression, Whitespace) # << >>
    THEN safe_evaluate_expression(target.expression,
                                  MathContext(input_val, frame)).value
    ELSE target.min_value
         + (input_val * (target.max_value - target.min_value)) \div Unit

\* 1. Calculate Target Value
FinalVal(target, input_val, use_absolute_midi, frame) ==
    IF StripChars(target.expression, Whitespace) # << >>
    THEN safe_evaluate_expression(target.expression,
                                  MathContext(input_val, frame)).value
    ELSE IF use_absolute_midi THEN input_val * 127
    ELSE target.min_value
         + (input_val * (target.max_value - target.min_value)) \div Unit

\* 2. Get Current Value & Type; Raised when the slot is not there
CurrentVal(g, resolved) ==
    IF resolved.index # Whole(-1)
    THEN LET container == GetAttr(g, resolved.obj, resolved.prop_name.v)
         IN  IF container = Raised THEN Raised
             ELSE GetItem(g, container, resolved.index)
    ELSE GetAttr(g, resolved.obj, resolved.prop_name.v)

\* a type test that asks for an int first: a bool is an int in Python
NewValIntFirst(target, current_val, final_val) ==
    LET new_val == IF target.drive_mode = "ACCUMULATE"
                   THEN NumberOf(current_val) + final_val
                   ELSE final_val
    IN  CASE current_val.kind \in {"bool", "int"}
                                        -> Whole(RoundHalfEven(new_val) \div Unit)
          [] current_val.kind = "float" -> Float(new_val)

\* 3. Apply Drive Mode Logic, then the type of the slot: a bool slot gets
\* new_val >= 0.5, an int slot int(round(new_val)), a float slot new_val
NewVal(target, current_val, final_val) ==
    LET new_val == IF target.drive_mode = "ACCUMULATE"
                   THEN NumberOf(current_val) + final_val
                   ELSE final_val
    IN  CASE current_val.kind = "bool"  -> Bool(2 * new_val >= Unit)
          [] current_val.kind = "int"   -> Whole(RoundHalfEven(new_val) \div Unit)
          [] current_val.kind = "float" -> Float(new_val)

\* 4. Write: container[index] = new_val, or setattr(obj, prop_name, new_val)
WriteSlot(g, resolved, new_val) ==
    LET id   == resolved.obj.id
        prop == Intern(resolved.prop_name.v)
    IN  CASE prop = "location" ->
                [g EXCEPT ![id].location[resolved.index.v + 1] = new_val]
          [] prop = "hide_viewport" -> [g EXCEPT ![id].hide_viewport = new_val]
          [] prop = "pass_index"    -> [g EXCEPT ![id].pass_index = new_val]

\* The graph after apply_to_blender(target, input_val, use_absolute_midi)
\* at the given frame, what resolve_path gave it, and
\* target.current_val_display (None: not set).
apply_to_blender(g, target, input_val, use_absolute_midi, frame) ==
    LET resolved    == resolve_path(g, target.data_path)
        final_val   == FinalVal(target, input_val, use_absolute_midi, frame)
        current_val == CurrentVal(g, resolved)
        new_val     == NewVal(target, current_val, final_val)
    IN  IF resolved.obj = PyNone \/ current_val = Raised
        THEN [graph |-> g, resolved |-> resolved,
              current_val_display |-> PyNone]
        ELSE IF current_val.kind = "vec"
        THEN \* a vector plus a float raises; setattr of a float to a vector
             \* raises after current_val_display is set
             [graph |-> g, resolved |-> resolved,
              current_val_display |-> IF target.drive_mode = "ACCUMULATE"
                                      THEN PyNone ELSE Float(final_val)]
        ELSE [graph |-> WriteSlot(g, resolved, new_val), resolved |-> resolved,
              current_val_display |-> Float(NumberOf(new_val))]

\* the targets of the model: a float slot under four ranges and
\* expressions, a motor on another float slot, a bool slot, an int slot,
\* and paths that do not lead to a slot
Targets ==
    {MidiTarget(PathCubeX, 0, 10 * Unit, "SET", ExprNone),
     MidiTarget(PathCubeX, 10 * Unit, 0, "SET", ExprNone),
     MidiTarget(PathCubeX, 0, 10 * Unit, "SET", ExprX),
     MidiTarget(PathCubeX, 0, 10 * Unit, "SET", ExprBlank),
     MidiTarget(PathABX, 0, 10 * Unit, "ACCUMULATE", ExprNone),
     MidiTarget(PathABX, 0, 10 * Unit, "ACCUMULATE", ExprNeg),
     MidiTarget(PathHide, 0, Unit, "SET", ExprNone),
     MidiTarget(PathPass, 0, 10 * Unit, "SET", ExprNone),
     MidiTarget(PathPass, 5 * (Unit \div 2), 5 * (Unit \div 2), "SET", ExprNone)}
    \cup {MidiTarget(path, 0, 10 * Unit, "SET", ExprNone) :
            path \in {PathNoPrefix, PathNoAttr, PathNoKey, PathBadKey,
                      PathNoField, PathNoIndex, PathPassBadIndex, PathLocEmpty}}

\* the frame of the scene when a target is written
SceneFrame == 0

\* apply_to_blender(target, input_val, use_absolute_midi)
ApplyToBlender ==
    /\ engine = "polling"
    /\ writes < MaxWrites
    /\ \E target \in Targets, input_val \in Inputs, use_absolute_midi \in BOOLEAN :
          LET done == apply_to_blender(graph, target, input_val,
                                       use_absolute_midi, SceneFrame)
          IN  /\ call' = [fn |-> "apply_to_blender", target |-> target,
                          input_val |-> input_val,
                          use_absolute_midi |-> use_absolute_midi]
              /\ ret' = [resolved |-> done.resolved,
                         current_val_display |-> done.current_val_display]
              /\ graph' = done.graph
    /\ writes' = writes + 1
    /\ UNCHANGED <<engineVars, file>>

----------------------------------------------------------------------------
(* C11 .. C14: one target written.                                         *)

\* the slot a path of the model names, in the graph g
SlotAt(g, path) ==
    CASE path = PathCubeX -> g["Cube"].location[1]
      [] path = PathABX   -> g["A.B"].location[1]
      [] path = PathHide  -> g["Cube"].hide_viewport
      [] path = PathPass  -> g["Cube"].pass_index

\* x * 127 under absolute output, min + x * (max - min) otherwise
Scaled(target, input_val, use_absolute_midi) ==
    IF use_absolute_midi THEN input_val * 127
    ELSE target.min_value
         + (input_val * (target.max_value - target.min_value)) \div Unit

\* a step of apply_to_blender on the float slot of the Cube, in Set mode
SetsCubeX ==
    /\ call'.fn = "apply_to_blender"
    /\ writes' = writes + 1
    /\ call'.target.data_path = PathCubeX
    /\ call'.target.drive_mode = "SET"

\* C11: the raw value of a target is the evaluator's result when its
\* expression is not empty (x*2 gives 2x, one space gives the 0.0 of a text
\* that is no expression), whatever min, max and the absolute flag are;
\* else x*127 under absolute output; else min + x*(max - min), also when
\* min > max, and 64/127 on the range 0..10 gives 64/127*10.
C11_OutputPriority ==
    [][SetsCubeX =>
        /\ SlotAt(graph', PathCubeX) =
              Float(CASE call'.target.expression = ExprX     -> 2 * call'.input_val
                      [] call'.target.expression = ExprBlank -> 0
                      [] OTHER -> Scaled(call'.target, call'.input_val,
                                         call'.use_absolute_midi))
        /\ (/\ call'.target = MidiTarget(PathCubeX, 0, 10 * Unit, "SET", ExprNone)
            /\ call'.input_val = 64 * 10
            /\ ~call'.use_absolute_midi) =>
              SlotAt(graph', PathCubeX) = Float(64 * 10 * 10)]_vars

\* C11 as the code has it: an expression that is empty once its whitespace
\* is stripped counts as no expression.
C11_OutputPriorityStripped ==
    [][SetsCubeX =>
        /\ SlotAt(graph', PathCubeX) =
              Float(CASE call'.target.expression = ExprX -> 2 * call'.input_val
                      [] OTHER -> Scaled(call'.target, call'.input_val,
                                         call'.use_absolute_midi))
        /\ (/\ call'.target = MidiTarget(PathCubeX, 0, 10 * Unit, "SET", ExprNone)
            /\ call'.input_val = 64 * 10
            /\ ~call'.use_absolute_midi) =>
              SlotAt(graph', PathCubeX) = Float(64 * 10 * 10)]_vars

\* x*2 has been written under absolute output, at x = 64/127
C11_Witness ==
    /\ call.fn = "apply_to_blender"
    /\ call.target = MidiTarget(PathCubeX, 0, 10 * Unit, "SET", ExprX)
    /\ call.use_absolute_midi
    /\ call.input_val = 64 * 10
    /\ SlotAt(graph, PathCubeX) = Float(2 * 64 * 10)

\* C12: in Accumulate mode the slot gets its value plus delta; delta is the
\* expression's result when there is an expression, else
\* (raw - (max + min)/2) * 0.1, so a raw value at the middle of the range
\* leaves the slot as it is.
C12_AccumulateCentredDelta ==
    [][(/\ call'.fn = "apply_to_blender"
        /\ writes' = writes + 1
        /\ call'.target.data_path = PathABX
        /\ call'.target.drive_mode = "ACCUMULATE") =>
        LET delta == SlotAt(graph', PathABX).v - SlotAt(graph, PathABX).v
            raw   == Scaled(call'.target, call'.input_val, call'.use_absolute_midi)
        IN  IF call'.target.expression = ExprNeg
            THEN delta = -call'.input_val
            ELSE 20 * delta = 2 * raw - (call'.target.max_value
                                         + call'.target.min_value)]_vars

\* the motor has been written at the middle of its range, and moved by 5.0
C12_Witness ==
    /\ call.fn = "apply_to_blender"
    /\ writes = 1
    /\ call.target = MidiTarget(PathABX, 0, 10 * Unit, "ACCUMULATE", ExprNone)
    /\ call.input_val = Unit \div 2
    /\ ~call.use_absolute_midi
    /\ SlotAt(graph, PathABX) = Float(5 * Unit)

\* C13: a bool slot gets (output >= 0.5), an int slot the whole number
\* nearest to the output, a float slot the output itself; every slot keeps
\* the kind of value it holds, and a bool slot is not rounded as an int.
C13_WriteKeepsKind ==
    [][(/\ call'.fn = "apply_to_blender"
        /\ writes' = writes + 1
        /\ call'.target.data_path \in {PathCubeX, PathHide, PathPass}
        /\ call'.target.expression = ExprNone) =>
        LET path   == call'.target.data_path
            output == Scaled(call'.target, call'.input_val, call'.use_absolute_midi)
            was    == SlotAt(graph, path)
            is     == SlotAt(graph', path)
        IN  /\ \A p \in {PathCubeX, PathABX, PathHide, PathPass} :
                  SlotAt(graph', p).kind = SlotAt(graph, p).kind
            /\ was.kind = "bool" => is = Bool(2 * output >= Unit)
            /\ was.kind = "int" =>
                  /\ 2 * (is.v * Unit - output) <= Unit
                  /\ 2 * (output - is.v * Unit) <= Unit
            /\ was.kind = "float" => is.v = output]_vars

\* 2.5 has been written to the int slot, 64/127 to the bool slot before it
C13_Witness ==
    /\ call.fn = "apply_to_blender"
    /\ call.target.data_path = PathPass
    /\ call.target.min_value = 5 * (Unit \div 2)
    /\ ~call.use_absolute_midi
    /\ SlotAt(graph, PathPass) = Whole(2)
    /\ SlotAt(graph, PathHide) = Bool(TRUE)

\* C14: for a path that does not resolve (another prefix, a missing
\* attribute, a missing key, a key of the wrong type) resolve_path returns
\* its failure value, and the write changes no slot.
C14_UnresolvedPathIsNoOp ==
    [][(/\ call'.fn = "apply_to_blender"
        /\ writes' = writes + 1
        /\ call'.target.data_path \in {PathNoPrefix, PathNoAttr, PathNoField,
                                       PathNoKey, PathNoIndex, PathBadKey}) =>
        /\ ret'.resolved.obj = PyNone
        /\ graph' = graph]_vars

\* C14 as the code has it: resolve_path fails for what is missing on the way
\* to the container; what is missing in the container itself (the last
\* attribute, the index) it does not look at, and the write finds it; no
\* slot changes in either case.
C14_UnresolvedOrMissingSlotIsNoOp ==
    [][(/\ call'.fn = "apply_to_blender"
        /\ writes' = writes + 1
        /\ call'.target.data_path \in {PathNoPrefix, PathNoAttr, PathNoField,
                                       PathNoKey, PathNoIndex, PathBadKey}) =>
        /\ call'.target.data_path \notin {PathNoField, PathNoIndex} =>
              ret'.resolved.obj = PyNone
        /\ graph' = graph]_vars

\* a target with a missing key has been applied after a write that took
C14_Witness ==
    /\ call.fn = "apply_to_blender"
    /\ writes = 2
    /\ call.target.data_path = PathNoKey
    /\ ret.resolved = Resolved(PyNone, PyNone, PyNone)
    /\ SlotAt(graph, PathCubeX) = Float(10 * Unit)

----------------------------------------------------------------------------
(* Export and import of the mappings.  The document holds, for every       *)
(* mapping, the keys of the export with the JSON text of each value: a     *)
(* string between quotes with its quotes and backslashes escaped, true or  *)
(* false, the digits of an int, a float with its decimal point.            *)

MidiMapping(name, cc, note, abs, speed, curve, tgs) ==
    [name |-> name, midi_cc |-> cc, use_note |-> note, target_value |-> 0,
     targets |-> tgs, show_expanded |-> TRUE, use_absolute |-> abs,
     smooth_speed |-> speed, easing_mode |-> curve]

\* the characters of s that pass Keep, in their order
Kept(s, Keep(_)) ==
    LET marked == [k \in 1..Len(s) |-> <<s[k], Keep(k)>>]
        chosen == SelectSeq(marked, LAMBDA pair : pair[2])
    IN  [k \in 1..Len(chosen) |-> chosen[k][1]]

\* s with a backslash before every quote and backslash
Escape(s) ==
    LET pairs == [k \in 1..(2 * Len(s)) |->
                    IF k % 2 = 1 THEN "\\" ELSE s[k \div 2]]
    IN  Kept(pairs, LAMBDA k : k % 2 = 0 \/ s[(k + 1) \div 2] \in {"\"", "\\"})

\* the backslashes of t that escape the character after them: those with an
\* even count of backslashes right before them
Escapes(t, k) ==
    /\ t[k] = "\\"
    /\ LET others == {j \in 1..(k - 1) : t[j] # "\\"}
           last   == IF others = {} THEN 0
                     ELSE CHOOSE j \in others : \A i \in others : i <= j
       IN  (k - 1 - last) % 2 = 0

Unescape(t) == Kept(t, LAMBDA k : ~Escapes(t, k))

DigitChar(d) ==
    CASE d = 0 -> "0" [] d = 1 -> "1" [] d = 2 -> "2" [] d = 3 -> "3"
      [] d = 4 -> "4" [] d = 5 -> "5" [] d = 6 -> "6" [] d = 7 -> "7"
      [] d = 8 -> "8" [] d = 9 -> "9"

\* the digits of n >= 0
RECURSIVE IntText(_)
IntText(n) ==
    IF n < 10 THEN <<DigitChar(n)>>
    ELSE Append(IntText(n \div 10), DigitChar(n % 10))

\* the digits after the point of rest/one, rest < one, as repr writes them
RECURSIVE FractionText(_, _)
FractionText(rest, one) ==
    IF rest = 0 THEN << >>
    ELSE <<DigitChar((rest * 10) \div one)>> \o FractionText((rest * 10) % one, one)

\* repr of the float n/one
FloatText(n, one) ==
    (IF n < 0 THEN <<"-">> ELSE << >>)
    \o IntText(Abs(n) \div one) \o <<".">>
    \o (IF Abs(n) % one = 0 THEN <<"0">> ELSE FractionText(Abs(n) % one, one))

\* the worth of the digits after the point, in units of 1/one
RECURSIVE FractionWorth(_, _)
FractionWorth(fraction, one) ==
    IF fraction = << >> THEN 0
    ELSE (DigitValue(Head(fraction)) * one + FractionWorth(Tail(fraction), one)) \div 10

\* json.dump of a str, a bool, an int, a float and of the name of an enum item
JsonString(s)      == [json |-> "string", text |-> <<"\"">> \o Escape(s) \o <<"\"">>]
JsonBool(b)        == [json |-> "literal", text |-> IF b THEN "true" ELSE "false"]
JsonInt(n)         == [json |-> "number", text |-> IntText(n)]
JsonFloat(n, one)  == [json |-> "number", text |-> FloatText(n, one)]
JsonName(id)       == [json |-> "string", name |-> id]

\* json.load of these texts
LoadString(token) == Unescape(SubSeq(token.text, 2, Len(token.text) - 1))
LoadBool(token)   == token.text = "true"
LoadInt(token)    == IntOf(token.text)
LoadName(token)   == token.name

\* the float of a number's text, in units of 1/one
LoadFloat(token, one) ==
    LET negative == token.text[1] = "-"
        digits   == IF negative THEN Tail(token.text) ELSE token.text
        whole    == SplitOnce(digits, ".").base
        fraction == SplitOnce(digits, ".").rest
        worth    == IntOf(whole) * one + FractionWorth(fraction, one)
    IN  IF negative THEN -worth ELSE worth

\* targets_data.append({...})
ExportTarget(t) ==
    [path |-> JsonString(t.data_path),
     min  |-> JsonFloat(t.min_value, Unit),
     max  |-> JsonFloat(t.max_value, Unit),
     mode |-> JsonName(t.drive_mode),
     expr |-> JsonString(t.expression)]

\* data.append({...})
ExportMapping(m) ==
    [name    |-> JsonString(m.name),
     cc      |-> JsonInt(m.midi_cc),
     note    |-> JsonBool(m.use_note),
     abs     |-> JsonBool(m.use_absolute),
     speed   |-> JsonFloat(m.smooth_speed, SpeedOne),
     curve   |-> JsonName(m.easing_mode),
     targets |-> [k \in 1..Len(m.targets) |-> ExportTarget(m.targets[k])]]

\* the document the export writes
ExportData(maps) == [k \in 1..Len(maps) |-> ExportMapping(maps[k])]

\* entry.get(key, default), read as the property that takes it reads it
Get(entry, key, default, Load(_)) ==
    IF key \in DOMAIN entry THEN Load(entry[key]) ELSE default

\* a target that reads the key "expression"
ImportTargetExpression(t_data) ==
    MidiTarget(Get(t_data, "path", << >>, LoadString),
               Get(t_data, "min", 0, LAMBDA token : LoadFloat(token, Unit)),
               Get(t_data, "max", Unit, LAMBDA token : LoadFloat(token, Unit)),
               Get(t_data, "mode", "SET", LoadName),
               Get(t_data, "expression", << >>, LoadString))

\* nt = nm.targets.add() and its five assignments
ImportTarget(t_data) ==
    MidiTarget(Get(t_data, "path", << >>, LoadString),
               Get(t_data, "min", 0, LAMBDA token : LoadFloat(token, Unit)),
               Get(t_data, "max", Unit, LAMBDA token : LoadFloat(token, Unit)),
               Get(t_data, "mode", "SET", LoadName),
               Get(t_data, "expr", << >>, LoadString))

StrImport == <<"I", "m", "p", "o", "r", "t">>

\* nm = context.scene.midi_mappings.add() and its assignments
ImportMapping(entry) ==
    MidiMapping(Get(entry, "name", StrImport, LoadString),
                Get(entry, "cc", 0, LoadInt),
                Get(entry, "note", FALSE, LoadBool),
                Get(entry, "abs", FALSE, LoadBool),
                Get(entry, "speed", SpeedOne \div 10,
                    LAMBDA token : LoadFloat(token, SpeedOne)),
                Get(entry, "curve", "LINEAR", LoadName),
                LET targets_data == IF "targets" \in DOMAIN entry
                                    THEN entry.targets ELSE << >>
                IN  [k \in 1..Len(targets_data) |-> ImportTarget(targets_data[k])])

\* the mappings the import adds
ImportData(data) == [k \in 1..Len(data) |-> ImportMapping(data[k])]

\* the name  Knob "A\B"
NameKnob == <<"K", "n", "o", "b", " ", "\"", "A", "\\", "B", "\"">>
NameKey == <<"K", "e", "y">>

\* a knob with a bool target and a motor, and a key without targets
KnobMapping ==
    MidiMapping(NameKnob, 7, FALSE, TRUE, SpeedOdd, "BACK_OUT",
                <<MidiTarget(PathHide, 0, Unit, "SET", ExprNone),
                  MidiTarget(PathABX, 10 * Unit, -5 * (Unit \div 2), "ACCUMULATE",
                             ExprImport)>>)

KeyMapping ==
    [MidiMapping(NameKey, 60, TRUE, FALSE, SpeedOne, "LINEAR", << >>)
        EXCEPT !.target_value = ONE, !.show_expanded = FALSE]

\* the lists of mappings a scene starts with
MappingLists ==
    {<< >>, <<KnobMapping>>, <<KnobMapping, KeyMapping>>,
     <<KeyMapping, KnobMapping>>}

\* a value of the document that is a JSON object, not the text of a scalar
IsObject(value) == "json" \notin DOMAIN value

\* the items of the enum easing_mode
EasingItems == EasingModes \ {"SPRING"}

\* the items of drive_mode
DriveModes == {"SET", "ACCUMULATE"}

\* t_data.get raises (t_data is no dict) or the assignment of drive_mode
\* raises (the value is no item of the enum)
TargetRaises(t_data) ==
    \/ ~IsObject(t_data)
    \/ "mode" \in DOMAIN t_data /\ LoadName(t_data.mode) \notin DriveModes

TargetsOf(entry) == IF "targets" \in DOMAIN entry THEN entry.targets ELSE << >>

\* entry.get raises, the assignment of easing_mode raises, or a target does
EntryRaises(entry) ==
    \/ ~IsObject(entry)
    \/ "curve" \in DOMAIN entry /\ LoadName(entry.curve) \notin EasingItems
    \/ \E k \in 1..Len(TargetsOf(entry)) : TargetRaises(TargetsOf(entry)[k])

\* the target nm.targets.add() made, as the raise leaves it: path, min and
\* max are assigned before drive_mode
TargetLeft(t_data) ==
    IF ~IsObject(t_data)
    THEN MidiTarget(<< >>, 0, Unit, "SET", << >>)
    ELSE MidiTarget(Get(t_data, "path", << >>, LoadString),
                    Get(t_data, "min", 0, LAMBDA token : LoadFloat(token, Unit)),
                    Get(t_data, "max", Unit, LAMBDA token : LoadFloat(token, Unit)),
                    "SET", << >>)

StrMapping == <<"M", "a", "p", "p", "i", "n", "g">>

\* the mapping midi_mappings.add() made, as the raise leaves it: name, cc,
\* note, abs and speed are assigned before easing_mode, the targets after it
MappingLeft(entry) ==
    IF ~IsObject(entry)
    THEN MidiMapping(StrMapping, 0, FALSE, FALSE, SpeedOne \div 10, "LINEAR", << >>)
    ELSE LET assigned ==
                 MidiMapping(Get(entry, "name", StrImport, LoadString),
                             Get(entry, "cc", 0, LoadInt),
                             Get(entry, "note", FALSE, LoadBool),
                             Get(entry, "abs", FALSE, LoadBool),
                             Get(entry, "speed", SpeedOne \div 10,
                                 LAMBDA token : LoadFloat(token, SpeedOne)),
                             "LINEAR", << >>)
             targets_data == TargetsOf(entry)
             bad == CHOOSE k \in 1..Len(targets_data) :
                        /\ TargetRaises(targets_data[k])
                        /\ \A j \in 1..(k - 1) : ~TargetRaises(targets_data[j])
         IN  IF "curve" \in DOMAIN entry /\ LoadName(entry.curve) \notin EasingItems
             THEN assigned
             ELSE [assigned EXCEPT
                     !.easing_mode = Get(entry, "curve", "LINEAR", LoadName),
                     !.targets = [k \in 1..bad |->
                                     IF k < bad THEN ImportTarget(targets_data[k])
                                     ELSE TargetLeft(targets_data[k])]]

\* for entry in data: the mappings the loop has added when it ends or raises
ImportLoop(data) ==
    IF \E k \in 1..Len(data) : EntryRaises(data[k])
    THEN LET bad == CHOOSE k \in 1..Len(data) :
                        /\ EntryRaises(data[k])
                        /\ \A j \in 1..(k - 1) : ~EntryRaises(data[j])
         IN  [added  |-> [k \in 1..bad |-> IF k < bad THEN ImportMapping(data[k])
                                           ELSE MappingLeft(data[k])],
              raised |-> TRUE]
    ELSE [added |-> ImportData(data), raised |-> FALSE]

\* files that did not come from the export: one that is no JSON, a list
\* whose second entry is a number, one whose second entry has a curve that is
\* no item of the enum, one whose second target has such a mode
FileNoJson == [written |-> TRUE, parses |-> FALSE]

FileNumberEntry ==
    [written |-> TRUE, parses |-> TRUE,
     data |-> <<ExportMapping(KeyMapping), JsonInt(5)>>]

FileBadCurve ==
    [written |-> TRUE, parses |-> TRUE,
     data |-> <<ExportMapping(KeyMapping),
                [ExportMapping(KnobMapping) EXCEPT !.curve = JsonName("BOGUS")]>>]

FileBadMode ==
    [written |-> TRUE, parses |-> TRUE,
     data |-> <<[ExportMapping(KnobMapping) EXCEPT
                    !.targets[2].mode = JsonName("MOTOR")]>>]

Documents == {FileNoJson, FileNumberEntry, FileBadCurve, FileBadMode}

\* MIDI_OT_ExportJSON.execute
ExportJSON ==
    /\ engine = "polling"
    /\ file' = [written |-> TRUE, parses |-> TRUE, data |-> ExportData(mappings)]
    /\ call' = [fn |-> "export"]
    /\ ret' = [exported |-> mappings]
    /\ UNCHANGED <<engineVars, graph, writes>>

\* MIDI_OT_ImportJSON.execute on the file of self.filepath: CANCELLED when
\* open or json.load raises; a raise inside the loop leaves the operator
\* with what the loop has added so far
ImportJSON ==
    /\ engine = "polling"
    /\ pc = "idle"
    /\ \E document \in {file} \cup Documents :
          IF document.written /\ document.parses
          THEN /\ Len(mappings) + Len(document.data) <= MaxMappings
               /\ mappings' = mappings \o ImportLoop(document.data).added
               /\ call' = [fn |-> "import", into |-> mappings, document |-> document,
                           result |-> IF ImportLoop(document.data).raised
                                      THEN "RAISED" ELSE "FINISHED"]
          ELSE /\ mappings' = mappings
               /\ call' = [fn |-> "import", into |-> mappings, document |-> document,
                           result |-> "CANCELLED"]
    /\ UNCHANGED <<engine, animation_states, midi_input, is_connected,
                   timer_registered, pending, execution_queue, monitor, pc,
                   applied, produced, lastSeq, listener>>
    /\ UNCHANGED <<graph, file, ret, writes>>

\* the five exported fields of a target
SameTarget(a, b) ==
    /\ a.data_path = b.data_path
    /\ a.min_value = b.min_value
    /\ a.max_value = b.max_value
    /\ a.drive_mode = b.drive_mode
    /\ a.expression = b.expression

\* cc, note, abs, speed and curve, and the targets one by one
SameMapping(a, b) ==
    /\ a.midi_cc = b.midi_cc
    /\ a.use_note = b.use_note
    /\ a.use_absolute = b.use_absolute
    /\ a.smooth_speed = b.smooth_speed
    /\ a.easing_mode = b.easing_mode
    /\ Len(a.targets) = Len(b.targets)
    /\ \A k \in 1..Len(a.targets) : SameTarget(a.targets[k], b.targets[k])

\* C20: an import of the exported file into an empty list of mappings gives
\* a list of the length and the order of the exported one, where every
\* mapping has the cc, note, abs, speed and curve of the exported mapping at
\* its place and every target its path, min, max, mode and expr.
C20_ExportImportRoundTrip ==
    [][(/\ call'.fn = "import"
        /\ call'.document = file
        /\ mappings = << >>
        /\ file.written) =>
          /\ Len(mappings') = Len(ret.exported)
          /\ \A k \in 1..Len(ret.exported) : SameMapping(mappings'[k], ret.exported[k])]_vars

\* C20: the knob and the key were exported, the list was emptied and the
\* file imported; the fields outside the file are those of a new mapping
C20_Witness ==
    /\ call.fn = "import"
    /\ call.into = << >>
    /\ call.result = "FINISHED"
    /\ call.document = file
    /\ ret.exported = <<KnobMapping, KeyMapping>>
    /\ Len(mappings) = 2
    /\ mappings[2] # KeyMapping
    /\ mappings[1].targets[1].data_path = PathHide
    /\ mappings[1].targets[2].expression = ExprImport

\* a step of the import that did not finish
FailedImport ==
    /\ call' # call
    /\ call'.fn = "import"
    /\ call'.result # "FINISHED"

\* C21: an import that fails, because the file does not parse or because an
\* entry of it is malformed, leaves the list of mappings exactly as it was.
C21_FailedImportCommitsNothing ==
    [][FailedImport => mappings' = mappings]_vars

\* C21: the file whose second entry is a number was imported into an empty
\* list: the import raised, and the key of the first entry and the mapping
\* added for the number are in the list
C21_Witness ==
    /\ call.fn = "import"
    /\ call.result = "RAISED"
    /\ call.document = FileNumberEntry
    /\ call.into = << >>
    /\ Len(mappings) = 2
    /\ mappings[1].name = NameKey
    /\ mappings[2].name = StrMapping

\* what holds: a file that json.load cannot parse leaves the list as it was
C21_UnparsedFileCommitsNothing ==
    [][(call' # call /\ call'.fn = "import" /\ call'.result = "CANCELLED")
          => mappings' = mappings]_vars

\* a step of apply_to_blender on a path whose last segment has brackets
\* around something that is no number
WritesMalformedIndex ==
    /\ call'.fn = "apply_to_blender"
    /\ writes' = writes + 1
    /\ call'.target.data_path \in {PathPassBadIndex, PathLocEmpty}

\* C25: a path whose last segment has a bracket suffix that holds no decimal
\* integer (pass_index[x], location[]) resolves to failure and nothing is
\* written; it is never resolved as the field itself with index -1.
C25_MalformedIndexIsFailure ==
    [][WritesMalformedIndex =>
          /\ ret'.resolved.obj = PyNone
          /\ ret'.resolved.index # Whole(-1)
          /\ graph' = graph]_vars

\* C25: pass_index[x] of the Cube was resolved as pass_index with index -1
\* and the int slot was written
C25_Witness ==
    /\ call.fn = "apply_to_blender"
    /\ call.target.data_path = PathPassBadIndex
    /\ ret.resolved = Resolved(Obj("Cube"), Str(StrPassIndex), Whole(-1))
    /\ graph["Cube"].pass_index = Whole(10)

\* what holds: location[] is resolved as location with index -1, and the
\* write of a number to the vector raises and is swallowed
C25_VectorFieldIsNotWritten ==
    [][(WritesMalformedIndex /\ call'.target.data_path = PathLocEmpty) =>
          /\ ret'.resolved = Resolved(Obj("Cube"), Str(StrLocation), Whole(-1))
          /\ graph' = graph]_vars

----------------------------------------------------------------------------
(* C27: the three parts of the connection state.                           *)

\* C27: whatever start_listening and stop_listening did and wherever
\* opening or closing failed, a port is held in midi_input exactly when the
\* tick callback is registered and, in the polling snapshot, exactly when
\* is_connected is true; and after a start_listening that returned False
\* no port is held and no tick is registered.
C27_ConnectionStateAgrees ==
    /\ (midi_input = "open") <=> timer_registered
    /\ engine = "polling" => (is_connected <=> (midi_input = "open"))
    /\ listener = "failed" => (midi_input # "open" /\ ~timer_registered)

\* C27: start_listening of the polling snapshot has returned False because
\* the close of the old port raised: is_connected is False, the old port is
\* still in midi_input and the tick is still registered
C27_Witness ==
    /\ engine = "polling"
    /\ listener = "failed"
    /\ ~is_connected
    /\ midi_input = "open"
    /\ timer_registered

\* what holds: is_connected is never true without a port in midi_input and
\* a registered tick
C27_ConnectedHasPortAndTick ==
    (engine = "polling" /\ is_connected) => (midi_input = "open" /\ timer_registered)

----------------------------------------------------------------------------
(* C24: the ticks that write nothing.                                      *)

\* the value the smoothing of this tick gives mapping i
SmoothedNow(i) ==
    SmoothPolling(Previous(i), mappings[i].target_value, mappings[i].smooth_speed)

\* mapping i is not continuously active and its smoothed value is within
\* 0.00001 of the stored one
Settled(i) ==
    /\ ~IsContinuous(mappings[i])
    /\ Abs(SmoothedNow(i) - Previous(i)) <= WriteEps

\* C24: in the polling snapshot a tick applies no target of a mapping that
\* is not continuously active and whose smoothed value differs from the
\* stored one by at most 0.00001, and leaves the stored value as it is; so
\* a mapping at rest is not written.
C24_NoWriteWithinEpsilon ==
    [][(AnimateStep /\ engine = "polling")
          => \A i \in 1..Len(mappings) :
                Settled(i) =>
                   /\ \A k \in 1..Len(mappings[i].targets) : <<i, k>> \notin applied'
                   /\ animation_states'[i] = Previous(i)]_vars

\* C24: a tick has ended that left a knob's stored value 0.000003 short of
\* its target 64/127 and applied nothing
C24_Witness ==
    /\ engine = "polling"
    /\ pc = "idle"
    /\ Running
    /\ applied = {}
    /\ \E i \in DOMAIN animation_states :
          /\ i <= Len(mappings)
          /\ ~IsContinuous(mappings[i])
          /\ animation_states[i] # mappings[i].target_value
          /\ Abs(animation_states[i] - mappings[i].target_value) <= WriteEps

----------------------------------------------------------------------------
(* C26, C23: the list of mappings changes under the dict animation_states. *)

\* the value the next tick starts mapping i of maps from, given the dict
StartsFrom(states, maps, i) ==
    IF i \in DOMAIN states THEN states[i] ELSE maps[i].target_value

\* maps without the mapping at index
Without(maps, index) ==
    [k \in 1..(Len(maps) - 1) |-> IF k < index THEN maps[k] ELSE maps[k + 1]]

\* C26: a removal leaves every remaining mapping the smoothed value it had:
\* the value its next tick starts from is the one it would have started
\* from before the removal, whatever index was removed.
C26_RemovalKeepsSmoothedValues ==
    [][Len(mappings') = Len(mappings) - 1 =>
          \E index \in 1..Len(mappings) :
             /\ mappings' = Without(mappings, index)
             /\ \A j \in 1..Len(mappings') :
                   StartsFrom(animation_states', mappings', j) =
                      StartsFrom(animation_states, mappings,
                                 IF j < index THEN j ELSE j + 1)]_vars

\* C26: two mappings were animated, the first was removed, and the instant
\* knob that is now the first has the slow knob's value under its index
C26_Witness ==
    /\ pc = "idle"
    /\ Len(mappings) = 1
    /\ mappings[1].smooth_speed = SpeedOne
    /\ DOMAIN animation_states = {1, 2}
    /\ animation_states[1] # mappings[1].target_value
    /\ animation_states[2] = mappings[1].target_value

\* C23: a mapping that was just added starts its first tick from its own
\* target_value, whatever was added, removed and animated before: the
\* value its next tick starts from is not one that a removed mapping left.
C23_AddedMappingSeededToOwnTarget ==
    [][Len(mappings') = Len(mappings) + 1 =>
          StartsFrom(animation_states', mappings', Len(mappings')) =
             mappings'[Len(mappings')].target_value]_vars

\* C23: the second of two animated mappings was removed and a mapping was
\* added; the new mapping, target_value 0.0, has the value 1.0 of the
\* removed knob under its index
C23_Witness ==
    /\ pc = "idle"
    /\ Len(mappings) = 2
    /\ mappings[2] = Mapping(0, FALSE, SpeedOne \div 10, <<Target("SET", ExprNone)>>)
    /\ 2 \in DOMAIN animation_states
    /\ animation_states[2] = ONE

----------------------------------------------------------------------------
(* The tick of the polling snapshot with its writes: the messages the port *)
(* holds are read, then every mapping is smoothed and every target of a    *)
(* mapping that is written goes through apply_to_blender, in the order of  *)
(* the two loops.  An exception that leaves a call ends the tick there.    *)

\* ticks of the writing tick in one behaviour
MaxTicks == 2

\* apply_to_blender without its try: an exception of the read or write of
\* the slot leaves the call
ApplyUnguarded(g, target, input_val, use_absolute_midi, frame) ==
    LET done        == apply_to_blender(g, target, input_val, use_absolute_midi, frame)
        current_val == CurrentVal(g, done.resolved)
    IN  [graph  |-> done.graph,
         raised |-> /\ done.resolved.obj # PyNone
                    /\ (current_val = Raised \/ current_val.kind = "vec")]

\* the call apply_to_blender(t, curved_val, mapping.use_absolute): with
\* resolve_path and safe_evaluate_expression returning on every exception
\* and  except Exception: pass  around the rest, the call always returns
ApplyCall(g, target, input_val, use_absolute_midi, frame) ==
    [graph  |-> apply_to_blender(g, target, input_val, use_absolute_midi, frame).graph,
     raised |-> FALSE]

\* curved_val = apply_easing(current, mapping.easing_mode) in the unit of the
\* graph: t itself for LINEAR, the curve on the tenths of t otherwise
CurvedVal(current, mode) ==
    IF mode = "LINEAR"
    THEN (IF current < 0 THEN 0 ELSE IF current > ONE THEN ONE ELSE current)
            \div (ONE \div Unit)
    ELSE (apply_easing(current \div (ONE \div 10), mode) \div (EaseOne \div 10))
            * (Unit \div 10)

\* the value of a call that is made once: the element of a set of one
TheOne(S) == CHOOSE x \in S : TRUE

\* for t in mapping.targets: apply_to_blender(...), from target k on
RECURSIVE ApplyTargets(_, _, _, _)
ApplyTargets(g, mapping, curved_val, k) ==
    IF k > Len(mapping.targets)
    THEN [graph |-> g, raised |-> FALSE, last |-> k - 1]
    ELSE TheOne({IF done.raised
                 THEN [graph |-> done.graph, raised |-> TRUE, last |-> k]
                 ELSE ApplyTargets(done.graph, mapping, curved_val, k + 1) :
                    done \in {ApplyCall(g, mapping.targets[k], curved_val,
                                        mapping.use_absolute, SceneFrame)}})

\* for i, mapping in enumerate(scene.midi_mappings), from mapping i on
RECURSIVE AnimationLoop(_, _, _, _, _)
AnimationLoop(states, g, done_pairs, maps, i) ==
    IF i > Len(maps)
    THEN [states |-> states, graph |-> g, applied |-> done_pairs, raised |-> FALSE]
    ELSE LET seeded  == [j \in DOMAIN states \cup {i} |->
                            IF j \in DOMAIN states THEN states[j]
                            ELSE maps[i].target_value]
             current == SmoothPolling(seeded[i], maps[i].target_value,
                                      maps[i].smooth_speed)
             stored  == [seeded EXCEPT ![i] = current]
         IN  IF \/ Abs(current - seeded[i]) > WriteEps
                \/ (IsContinuous(maps[i]) /\ Abs(current) > SnapEps)
             THEN TheOne({IF done.raised
                          THEN [states |-> stored, graph |-> done.graph,
                                applied |-> done_pairs \cup
                                            {<<i, k>> : k \in 1..done.last},
                                raised |-> TRUE]
                          ELSE AnimationLoop(stored, done.graph,
                                             done_pairs \cup
                                             {<<i, k>> : k \in 1..done.last},
                                             maps, i + 1) :
                             done \in {ApplyTargets(g, maps[i],
                                          CurvedVal(current, maps[i].easing_mode),
                                          1)}})
             ELSE AnimationLoop(seeded, g, done_pairs, maps, i + 1)

\* for message in midi_input.iter_pending(): the mappings after the messages
RECURSIVE ReadPending(_, _)
ReadPending(maps, buffer) ==
    IF buffer = << >> THEN maps
    ELSE ReadPending(UpdateMappedValues(maps, DecodePending(Head(buffer))),
                     Tail(buffer))

\* the targets of the writing tick: the float slots of the two objects, a
\* vector index that is not there, an object that is not there, and an
\* expression that divides by zero
PassTarget(path, mode, expr) == MidiTarget(path, 0, 10 * Unit, mode, expr)

PassKnob(cc, tgs) == MidiMapping(NameKnob, cc, FALSE, FALSE, SpeedOne, "LINEAR", tgs)

\* the lists of the writing tick; the key of the second was saved pressed
PassLists ==
    {<<PassKnob(0, <<PassTarget(PathNoIndex, "SET", ExprNone),
                     PassTarget(PathCubeX, "SET", ExprNone)>>),
       PassKnob(1, <<PassTarget(PathABX, "SET", ExprX)>>)>>,
     <<[MidiMapping(NameKey, 0, TRUE, FALSE, SpeedOne, "QUAD_OUT",
                    <<PassTarget(PathCubeX, "SET", ExprNone),
                      PassTarget(PathNoKey, "ACCUMULATE", ExprNone)>>)
           EXCEPT !.target_value = ONE],
       PassKnob(0, <<PassTarget(PathABX, "SET", ExprNone)>>)>>,
     <<PassKnob(0, <<PassTarget(PathCubeX, "SET", ExprDivZero),
                     PassTarget(PathCubeX, "ACCUMULATE", ExprNone)>>)>>}

\* the ticks a behaviour has made
Ticks == IF call.fn = "process_midi_events" THEN call.tick ELSE 0

\* process_midi_events, from its first line to its return
ProcessMidiEvents ==
    /\ engine = "polling"
    /\ pc = "idle"
    /\ timer_registered
    /\ Ticks < MaxTicks
    /\ IF ~is_connected \/ midi_input # "open"
       THEN UNCHANGED <<mappings, animation_states, pending, monitor, applied,
                        lastSeq, graph, call, ret, writes>>
       ELSE \E maps \in {ReadPending(mappings, pending)} :
            \E loop \in {AnimationLoop(animation_states, graph, {}, maps, 1)} :
                /\ mappings' = maps
                /\ pending' = << >>
                /\ monitor' = IF pending = << >> THEN monitor
                              ELSE MonitorOf(DecodePending(pending[Len(pending)]))
                /\ lastSeq' = IF pending = << >> THEN lastSeq
                              ELSE pending[Len(pending)].seq
                /\ animation_states' = loop.states
                /\ graph' = loop.graph
                /\ applied' = loop.applied
                /\ writes' = writes + Cardinality(loop.applied)
                /\ call' = [fn |-> "process_midi_events", tick |-> Ticks + 1]
                /\ ret' = [raised |-> loop.raised]
    /\ UNCHANGED <<engine, midi_input, is_connected, timer_registered,
                   execution_queue, pc, produced, listener, file>>

----------------------------------------------------------------------------
(* C22: a target that fails, and the rest of the tick.                     *)

\* the paths of the model that lead to a slot
SlotPaths == {PathCubeX, PathABX, PathHide, PathPass}

\* a target whose path does not resolve, whose write raises, or whose
\* expression fails
FailingTarget(t) ==
    \/ t.data_path \notin SlotPaths
    \/ t.expression = ExprDivZero

\* the list without target k of mapping i
DropTarget(maps, i, k) == [maps EXCEPT ![i].targets = Without(maps[i].targets, k)]

\* a step of process_midi_events past its first test
WritingTick == call' # call /\ call'.fn = "process_midi_events"

\* C22: a failing target does not stop the tick, and the tick leaves the
\* smoothed values and the slots of every other target as the same tick
\* leaves them when the failing target is not in the list.
C22_TickAsIfFailingTargetAbsent ==
    [][WritingTick =>
          /\ ~ret'.raised
          /\ \A i \in 1..Len(mappings'), k \in 1..2 :
                (/\ k <= Len(mappings'[i].targets)
                 /\ FailingTarget(mappings'[i].targets[k])) =>
                   LET absent == AnimationLoop(animation_states, graph, {},
                                               DropTarget(mappings', i, k), 1)
                   IN  /\ animation_states' = absent.states
                       /\ \A j \in 1..Len(mappings'), l \in 1..2 :
                             (/\ <<j, l>> # <<i, k>>
                              /\ l <= Len(mappings'[j].targets)
                              /\ mappings'[j].targets[l].data_path \in SlotPaths) =>
                                SlotAt(graph', mappings'[j].targets[l].data_path) =
                                   SlotAt(absent.graph,
                                          mappings'[j].targets[l].data_path)]_vars

\* the targets the tick writes, in the order of its loops: those of the
\* mappings that pass the write test, without the targets that lead to no slot
WrittenTargets(states, maps) ==
    SelectSeq([p \in 1..(2 * Len(maps)) |-> <<(p + 1) \div 2, ((p - 1) % 2) + 1>>],
              LAMBDA pair :
                 /\ pair[2] <= Len(maps[pair[1]].targets)
                 /\ WritesPolling(states, maps, pair[1])
                 /\ maps[pair[1]].targets[pair[2]].data_path \in SlotPaths)

\* a float slot of the two objects with a new value
WithSlot(g, path, value) ==
    CASE path = PathCubeX -> [g EXCEPT !["Cube"].location[1] = value]
      [] path = PathABX   -> [g EXCEPT !["A.B"].location[1] = value]

\* the graph after these targets: x*2 for the expression x*2, 0.0 for the
\* expression that fails, the range otherwise; set, or added to the slot
RECURSIVE GraphAfter(_, _, _, _)
GraphAfter(g, states, maps, order) ==
    IF order = << >> THEN g
    ELSE LET mapping == maps[Head(order)[1]]
             t       == mapping.targets[Head(order)[2]]
             x       == states[Head(order)[1]] \div (ONE \div Unit)
             raw     == CASE t.expression = ExprX       -> 2 * x
                          [] t.expression = ExprDivZero -> 0
                          [] OTHER -> Scaled(t, x, mapping.use_absolute)
             new     == IF t.drive_mode = "ACCUMULATE"
                        THEN SlotAt(g, t.data_path).v + raw ELSE raw
         IN  GraphAfter(WithSlot(g, t.data_path, Float(new)), states, maps,
                        Tail(order))

\* C22 as the code has it: a failing target does not stop the tick; every
\* mapping is advanced, and the graph is the one the written targets give
\* in their order when a target whose path does not resolve or whose write
\* raises is skipped and a target whose expression fails is written with
\* the raw value 0.0; the failing target still counts in its mapping's
\* test for being continuously active.
C22_FailingTargetSkippedOrZero ==
    [][WritingTick =>
          /\ ~ret'.raised
          /\ animation_states' = AnimatePolling(animation_states, mappings').states
          /\ graph' = GraphAfter(graph, animation_states', mappings',
                                 WrittenTargets(animation_states, mappings'))]_vars

\* C22: one tick has read a turn of both knobs; the write to the vector
\* index that is not there was swallowed, and the next target of the same
\* knob and the target of the other knob were written
C22_Witness ==
    /\ call.fn = "process_midi_events"
    /\ ~ret.raised
    /\ mappings[1].targets[1].data_path = PathNoIndex
    /\ applied = {<<1, 1>>, <<1, 2>>, <<2, 1>>}
    /\ SlotAt(graph, PathCubeX) = Float(64 * 10 * 10)
    /\ SlotAt(graph, PathABX) = Float(2 * 13 * 10)

----------------------------------------------------------------------------
(* The functions on their own inputs.                                      *)

CallInit == InitFrom({<< >>})

CallNext ==
    \/ Ease
    \/ ResolvePath
    \/ Evaluate

CallSpec == CallInit /\ [][CallNext]_vars

WriteNext ==
    \/ ApplyToBlender

WriteSpec == CallInit /\ [][WriteNext]_vars

PassInit == InitFrom(PassLists) /\ engine = "polling"

PassNext ==
    \/ StartListening
    \/ Deliver
    \/ ProcessMidiEvents

PassSpec == PassInit /\ [][PassNext]_vars

FileInit == InitFrom(MappingLists) /\ engine = "polling"

FileNext ==
    \/ ExportJSON
    \/ ImportJSON
    \/ RemoveMapping

FileSpec == FileInit /\ [][FileNext]_vars

====
